---------------------------- MODULE Spec2Model ----------------------------
(***************************************************************************)
(* A model of the VM convergence engine of                                 *)
(* pkg/vmprovider/providers/vsphere/session_vm_update.go:                  *)
(*   - the device matchers (updateEthCardDeviceChanges,                    *)
(*     updatePCIDeviceChanges),                                            *)
(*   - the config spec builder (updateConfigSpec and its sub-routines),    *)
(*   - the power-state transition controller (UpdateVirtualMachine,        *)
(*     prepareVMForPowerOn, poweredOnVMReconfigure) with the customization *)
(*     gate, the volume gate, status projection and affinity attachment.   *)
(*                                                                         *)
(* Go pointers are modelled as sequences of length <= 1: Nil is the nil    *)
(* pointer and Ptr(v) points to v.  A Go map is a TLA+ function whose      *)
(* DOMAIN is the set of keys present.                                      *)
(***************************************************************************)
EXTENDS Integers, Sequences, FiniteSets, TLC

VARIABLES
    hv,            \* the hypervisor's VM object: runtime, config, guest
    vm,            \* vmCtx.VM: Name, Annotations, Spec, Status
    vmConfigArgs,  \* vmprovider.VmConfigArgs: class, image, metadata, policy
    session,       \* the Session: global extra-config, min CPU MHz, feature flags
    env,           \* collaborators outside the engine: affinity service membership
    pc,            \* position of the current Converge pass
    moVM,          \* the snapshot GetProperties returned at the start of the pass
    local,         \* locals of the pass: netIfList, dnsServers, configSpec
    calls,         \* the calls the current pass has issued, in order
    result,        \* what the current pass returned
    pass,          \* number of the current pass
    prev,          \* result and calls of the previous pass
    matchIn,       \* arguments of one device matcher call
    matchOut       \* the change list that call returned

vars == <<hv, vm, vmConfigArgs, session, env, pc, moVM, local, calls, result,
          pass, prev, matchIn, matchOut>>

passVars == <<hv, vm, vmConfigArgs, session, env, pc, moVM, local, calls, result,
              pass, prev>>

matchVars == <<matchIn, matchOut>>

---------------------------------------------------------------------------
(* Bounds of the model. *)

\* Longest device list handed to a matcher, per side.
MaxDevs == 2

\* Number of Converge passes run one after the other.
MaxPasses == 2

---------------------------------------------------------------------------
(* Pointers and small helpers. *)

Nil == <<>>

Ptr(v) == <<v>>

Deref(p) == p[1]

SeqsUpTo(S, n) == UNION {[1..k -> S] : k \in 0..n}

RemoveAt(sq, i) == SubSeq(sq, 1, i - 1) \o SubSeq(sq, i + 1, Len(sq))

Range(sq) == {sq[i] : i \in 1..Len(sq)}

\* Go's int32(x).  The model checker's integers are themselves 32 bits wide, so
\* every value of the model is in range and the conversion keeps it.
Int32(x) == x

---------------------------------------------------------------------------
(* Device backings: the closed set of backing types the matchers inspect,  *)
(* plus the nil backing and one backing type outside the switch of each    *)
(* matcher.                                                                *)

NilBacking == [type |-> "nil"]

NetworkBacking(deviceName) ==
    [type |-> "VirtualEthernetCardNetworkBackingInfo", DeviceName |-> deviceName]

DVPortBacking(switchUuid, portgroupKey) ==
    [type |-> "VirtualEthernetCardDistributedVirtualPortBackingInfo",
     SwitchUuid |-> switchUuid, PortgroupKey |-> portgroupKey]

OpaqueBacking(opaqueNetworkId) ==
    [type |-> "VirtualEthernetCardOpaqueNetworkBackingInfo",
     OpaqueNetworkId |-> opaqueNetworkId]

\* A backing type the switch of updateEthCardDeviceChanges has no case for.
LegacyBacking == [type |-> "VirtualEthernetCardLegacyNetworkBackingInfo"]

VmiopBacking(vgpu) ==
    [type |-> "VirtualPCIPassthroughVmiopBackingInfo", Vgpu |-> vgpu]

DynamicBacking(allowedDevice, customLabel) ==
    [type |-> "VirtualPCIPassthroughDynamicBackingInfo",
     AllowedDevice |-> allowedDevice, CustomLabel |-> customLabel]

\* A backing type the switch of updatePCIDeviceChanges has no case for.
PlainPciBacking == [type |-> "VirtualPCIPassthroughDeviceBackingInfo"]

EthCard(key, addressType, macAddress, externalId, backing) ==
    [class |-> "VirtualEthernetCard", Key |-> key, AddressType |-> addressType,
     MacAddress |-> macAddress, ExternalId |-> externalId, Backing |-> backing]

AddOp(dev) == [Operation |-> "add", Device |-> dev]

RemoveOp(dev) == [Operation |-> "remove", Device |-> dev]

RemoveOps(devs) == [i \in 1..Len(devs) |-> RemoveOp(devs[i])]

---------------------------------------------------------------------------
(* The network adapter matcher. *)

ethCardMatch(newEthCard, curEthCard) ==
    IF newEthCard.AddressType = "manual" /\ newEthCard.MacAddress # curEthCard.MacAddress
    THEN FALSE
    ELSE IF newEthCard.ExternalId # "" /\ newEthCard.ExternalId # curEthCard.ExternalId
    THEN FALSE
    ELSE TRUE

\* The body of the inner loop: does curDev match expectedDev?
EthBackingMatch(expectedDev, curDev) ==
    LET db == curDev.Backing
        expectedBacking == expectedDev.Backing
    IN  IF ~ethCardMatch(expectedDev, curDev) THEN FALSE
        ELSE IF db.type = "nil" \/ db.type # expectedBacking.type THEN FALSE
        ELSE CASE db.type = "VirtualEthernetCardNetworkBackingInfo" ->
                    db.DeviceName = expectedBacking.DeviceName
               [] db.type = "VirtualEthernetCardDistributedVirtualPortBackingInfo" ->
                    /\ db.SwitchUuid = expectedBacking.SwitchUuid
                    /\ db.PortgroupKey = expectedBacking.PortgroupKey
               [] db.type = "VirtualEthernetCardOpaqueNetworkBackingInfo" ->
                    db.OpaqueNetworkId = expectedBacking.OpaqueNetworkId
               [] OTHER -> FALSE

\* The inner loop: index of the first matching current card, 0 for none (-1 in Go).
EthMatchingIdx(expectedDev, currentEthCards) ==
    LET hits == {idx \in 1..Len(currentEthCards) :
                    EthBackingMatch(expectedDev, currentEthCards[idx])}
    IN  IF hits = {} THEN 0 ELSE CHOOSE idx \in hits : \A j \in hits : idx <= j

RECURSIVE EthLoop(_, _, _, _)
EthLoop(expectedEthCards, i, currentEthCards, deviceChanges) ==
    IF i > Len(expectedEthCards)
    THEN [currentEthCards |-> currentEthCards, deviceChanges |-> deviceChanges]
    ELSE LET matchingIdx == EthMatchingIdx(expectedEthCards[i], currentEthCards)
         IN  IF matchingIdx = 0
             THEN EthLoop(expectedEthCards, i + 1, currentEthCards,
                          Append(deviceChanges, AddOp(expectedEthCards[i])))
             ELSE EthLoop(expectedEthCards, i + 1,
                          RemoveAt(currentEthCards, matchingIdx), deviceChanges)

\* A faulty variant of updateEthCardDeviceChanges that returns the adds ahead
\* of the removes; C7 must tell it from the real one.
updateEthCardDeviceChanges_AddsFirst(expectedEthCards, currentEthCards) ==
    LET r == EthLoop(expectedEthCards, 1, currentEthCards, <<>>)
    IN  r.deviceChanges \o RemoveOps(r.currentEthCards)

updateEthCardDeviceChanges(expectedEthCards, currentEthCards) ==
    LET r == EthLoop(expectedEthCards, 1, currentEthCards, <<>>)
    IN  RemoveOps(r.currentEthCards) \o r.deviceChanges

---------------------------------------------------------------------------
(* The passthrough device matcher. *)

createPCIPassThroughDevice(deviceKey, backingInfo) ==
    [class |-> "VirtualPCIPassthrough", Key |-> deviceKey, Backing |-> backingInfo]

PciFirstKey == -200

createPCIDevices(pciDevices) ==
    LET nv == Len(pciDevices.VGPUDevices)
        nd == Len(pciDevices.DynamicDirectPathIODevices)
        vgpu(i) == createPCIPassThroughDevice(PciFirstKey - (i - 1),
                       VmiopBacking(pciDevices.VGPUDevices[i].ProfileName))
        ddp(i) ==
            LET d == pciDevices.DynamicDirectPathIODevices[i]
                allowedDev == [VendorId |-> Int32(d.VendorID), DeviceId |-> Int32(d.DeviceID)]
            IN  createPCIPassThroughDevice(PciFirstKey - nv - (i - 1),
                    DynamicBacking(<<allowedDev>>, d.CustomLabel))
    IN  [i \in 1..nv |-> vgpu(i)] \o [i \in 1..nd |-> ddp(i)]

PciBackingMatch(expectedDev, curDev) ==
    LET curBacking == curDev.Backing
        expectedBacking == expectedDev.Backing
    IN  IF curBacking.type = "nil" \/ curBacking.type # expectedBacking.type THEN FALSE
        ELSE CASE curBacking.type = "VirtualPCIPassthroughVmiopBackingInfo" ->
                    curBacking.Vgpu = expectedBacking.Vgpu
               [] curBacking.type = "VirtualPCIPassthroughDynamicBackingInfo" ->
                    /\ curBacking.CustomLabel = expectedBacking.CustomLabel
                    /\ LET expectedAllowedDev == expectedBacking.AllowedDevice[1]
                           currAllowedDevs == curBacking.AllowedDevice
                       IN  \E i \in 1..Len(currAllowedDevs) :
                              /\ expectedAllowedDev.DeviceId = currAllowedDevs[i].DeviceId
                              /\ expectedAllowedDev.VendorId = currAllowedDevs[i].VendorId
               [] OTHER -> FALSE

PciMatchingIdx(expectedDev, currentPciDevices) ==
    LET hits == {idx \in 1..Len(currentPciDevices) :
                    PciBackingMatch(expectedDev, currentPciDevices[idx])}
    IN  IF hits = {} THEN 0 ELSE CHOOSE idx \in hits : \A j \in hits : idx <= j

RECURSIVE PciLoop(_, _, _, _)
PciLoop(expectedPciDevices, i, currentPciDevices, deviceChanges) ==
    IF i > Len(expectedPciDevices)
    THEN [currentPciDevices |-> currentPciDevices, deviceChanges |-> deviceChanges]
    ELSE LET matchingIdx == PciMatchingIdx(expectedPciDevices[i], currentPciDevices)
         IN  IF matchingIdx = 0
             THEN PciLoop(expectedPciDevices, i + 1, currentPciDevices,
                          Append(deviceChanges, AddOp(expectedPciDevices[i])))
             ELSE PciLoop(expectedPciDevices, i + 1,
                          RemoveAt(currentPciDevices, matchingIdx), deviceChanges)

updatePCIDeviceChanges(expectedPciDevices, currentPciDevices) ==
    LET r == PciLoop(expectedPciDevices, 1, currentPciDevices, <<>>)
    IN  RemoveOps(r.currentPciDevices) \o r.deviceChanges

---------------------------------------------------------------------------
(* Network interface lists. *)

NetIfFirstKey == -100

\* The card the network provider allocates for a desired interface, with the
\* device key fixed up by ensureNetworkInterfaces.
NetIfInfo(vif, deviceKey) ==
    [Device |-> EthCard(deviceKey, vif.AddressType, vif.MacAddress, vif.ExternalId,
                        vif.Backing),
     Customization |-> [MacAddress |-> vif.MacAddress, Ip |-> "fixed"]]

\* A faulty variant of ensureNetworkInterfaces that counts down from the
\* passthrough range's first key; C24 must tell it from the real one.
ensureNetworkInterfaces_PciRange(networkInterfaces) ==
    [i \in 1..Len(networkInterfaces) |->
        NetIfInfo(networkInterfaces[i], PciFirstKey - (i - 1))]

\* ensureNetworkInterfaces when every EnsureNetworkInterface call succeeds.
ensureNetworkInterfaces(networkInterfaces) ==
    [i \in 1..Len(networkInterfaces) |->
        NetIfInfo(networkInterfaces[i], NetIfFirstKey - (i - 1))]

SelectByType(devices, class) ==
    LET idx == {i \in 1..Len(devices) : devices[i].class = class}
        RECURSIVE Pick(_)
        Pick(i) == IF i > Len(devices) THEN <<>>
                   ELSE IF i \in idx THEN <<devices[i]>> \o Pick(i + 1)
                   ELSE Pick(i + 1)
    IN  Pick(1)

fakeUpClonedNetIfList(config) ==
    LET currentEthCards == SelectByType(config.Hardware.Device, "VirtualEthernetCard")
    IN  [i \in 1..Len(currentEthCards) |->
            [Device |-> currentEthCards[i],
             Customization |-> [MacAddress |-> currentEthCards[i].MacAddress,
                                Ip |-> "dhcp"]]]

GetVirtualDeviceList(netIfList) == [i \in 1..Len(netIfList) |-> netIfList[i].Device]

---------------------------------------------------------------------------
(* The config spec builder.  A VirtualMachineConfigSpec is a sparse        *)
(* write-set: a field holding its Go zero value is not written.            *)

EmptyMap == [k \in {} |-> ""]

ZeroConfigSpec ==
    [Annotation |-> "", NumCPUs |-> 0, MemoryMB |-> 0, ManagedBy |-> Nil,
     CpuAllocation |-> Nil, MemoryAllocation |-> Nil, ExtraConfig |-> EmptyMap,
     VAppConfig |-> Nil, ChangeTrackingEnabled |-> Nil, DeviceChange |-> <<>>]

\* A faulty variant of IsZeroConfigSpec that does not look at the tracking
\* flag; C20 must tell it from the real one.
IsZeroConfigSpec_IgnoreTracking(configSpec) ==
    [configSpec EXCEPT !.ChangeTrackingEnabled = Nil] = ZeroConfigSpec

\* apiEquality.Semantic.DeepEqual(configSpec, &VirtualMachineConfigSpec{})
IsZeroConfigSpec(configSpec) == configSpec = ZeroConfigSpec

VCVMAnnotation == "Virtual Machine managed by the vSphere Virtual Machine service"

ManagedByWcp == [ExtensionKey |-> "com.vmware.vcenter.wcp", Type |-> "VirtualMachine"]

\* A CPU quantity is held in millicores, 0 for the zero quantity.
CpuQuantityToMhz(milli, cpuFreqMhz) == (milli * cpuFreqMhz + 999) \div 1000

\* A memory quantity is held in units of half a MiB, 0 for the zero quantity.
memoryQuantityToMb(halfMiB) == (halfMiB + 1) \div 2

\* A faulty variant of updateConfigSpecCPUAllocation without the IsZero tests:
\* an absent request or limit is written as zero over the current value; C9
\* must tell it from the real one.
updateConfigSpecCPUAllocation_NoIsZero(config, configSpec, vmClassSpec, minCPUFeq) ==
    LET cpuAllocation == config.CpuAllocation
        requests == vmClassSpec.Policies.Resources.Requests
        limits == vmClassSpec.Policies.Resources.Limits
        rsv == CpuQuantityToMhz(requests.Cpu, minCPUFeq)
        lim == CpuQuantityToMhz(limits.Cpu, minCPUFeq)
        cpuReservation ==
            IF \/ cpuAllocation = Nil
               \/ Deref(cpuAllocation).Reservation = Nil
               \/ Deref(Deref(cpuAllocation).Reservation) # rsv
            THEN Ptr(rsv) ELSE Nil
        cpuLimit ==
            IF \/ cpuAllocation = Nil
               \/ Deref(cpuAllocation).Limit = Nil
               \/ Deref(Deref(cpuAllocation).Limit) # lim
            THEN Ptr(lim) ELSE Nil
    IN  IF cpuReservation # Nil \/ cpuLimit # Nil
        THEN [configSpec EXCEPT !.CpuAllocation =
                 Ptr([Reservation |-> cpuReservation, Limit |-> cpuLimit])]
        ELSE configSpec

updateConfigSpecCPUAllocation(config, configSpec, vmClassSpec, minCPUFeq) ==
    LET cpuAllocation == config.CpuAllocation
        requests == vmClassSpec.Policies.Resources.Requests
        limits == vmClassSpec.Policies.Resources.Limits
        rsv == CpuQuantityToMhz(requests.Cpu, minCPUFeq)
        lim == CpuQuantityToMhz(limits.Cpu, minCPUFeq)
        cpuReservation ==
            IF requests.Cpu # 0
               /\ (\/ cpuAllocation = Nil
                   \/ Deref(cpuAllocation).Reservation = Nil
                   \/ Deref(Deref(cpuAllocation).Reservation) # rsv)
            THEN Ptr(rsv) ELSE Nil
        cpuLimit ==
            IF limits.Cpu # 0
               /\ (\/ cpuAllocation = Nil
                   \/ Deref(cpuAllocation).Limit = Nil
                   \/ Deref(Deref(cpuAllocation).Limit) # lim)
            THEN Ptr(lim) ELSE Nil
    IN  IF cpuReservation # Nil \/ cpuLimit # Nil
        THEN [configSpec EXCEPT !.CpuAllocation =
                 Ptr([Reservation |-> cpuReservation, Limit |-> cpuLimit])]
        ELSE configSpec

updateConfigSpecMemoryAllocation(config, configSpec, vmClassSpec) ==
    LET memAllocation == config.MemoryAllocation
        requests == vmClassSpec.Policies.Resources.Requests
        limits == vmClassSpec.Policies.Resources.Limits
        rsv == memoryQuantityToMb(requests.Memory)
        lim == memoryQuantityToMb(limits.Memory)
        memoryReservation ==
            IF requests.Memory # 0
               /\ (\/ memAllocation = Nil
                   \/ Deref(memAllocation).Reservation = Nil
                   \/ Deref(Deref(memAllocation).Reservation) # rsv)
            THEN Ptr(rsv) ELSE Nil
        memoryLimit ==
            IF limits.Memory # 0
               /\ (\/ memAllocation = Nil
                   \/ Deref(memAllocation).Limit = Nil
                   \/ Deref(Deref(memAllocation).Limit) # lim)
            THEN Ptr(lim) ELSE Nil
    IN  IF memoryReservation # Nil \/ memoryLimit # Nil
        THEN [configSpec EXCEPT !.MemoryAllocation =
                 Ptr([Reservation |-> memoryReservation, Limit |-> memoryLimit])]
        ELSE configSpec

\* Extra-config keys and values the engine names.
ExtraConfigGuestInfoPrefix == "guestinfo."

GuestInfoUserdataKey == "guestinfo.userdata"

MMPowerOffVMExtraConfigKey == "maintenance.vm.evacuation.poweroff"

PCIPassthruMMIOExtraConfigKey == "pciPassthru.use64bitMMIO"

PCIPassthruMMIOSizeExtraConfigKey == "pciPassthru.64bitMMIOSizeGB"

PCIPassthruMMIOSizeDefault == "512"

ExtraConfigTrue == "TRUE"

VMOperatorV1Alpha1ExtraConfigKey == "guestinfo.vmservice.defer-cloud-init"

VMOperatorV1Alpha1ConfigReady == "ready"

VMOperatorV1Alpha1ConfigEnabled == "enabled"

GOSCPendingExtraConfigKey == "tools.deployPkg.fileName"

\* strings.HasPrefix(k, prefix) over the keys of the model.
HasPrefix(k, prefix) ==
    /\ prefix = ExtraConfigGuestInfoPrefix
    /\ k \in {GuestInfoUserdataKey, VMOperatorV1Alpha1ExtraConfigKey}

\* renderTemplateFn: parse text as a template and execute it against vm.Spec;
\* a text that does not parse or does not execute is returned as it is.
renderTemplateFn(text, vmSpec) ==
    CASE text = "{{.ImageName}}" -> vmSpec.ImageName
      [] text = "{{.NoSuchField}}" -> text
      [] text = "{{" -> text
      [] OTHER -> text

\* Overlay of b on a: a[k] = v for every k, v of b.
MapOverlay(a, b) ==
    [k \in DOMAIN a \cup DOMAIN b |-> IF k \in DOMAIN b THEN b[k] ELSE a[k]]

setMMIOExtraConfig(vmAnnotations, extraConfig) ==
    LET ann == vmAnnotations.PCIPassthruMMIOOverride
        mmioSize == IF ann = "" THEN PCIPassthruMMIOSizeDefault ELSE ann
    IN  IF mmioSize # "0"
        THEN MapOverlay(extraConfig,
                 [k \in {PCIPassthruMMIOExtraConfigKey, PCIPassthruMMIOSizeExtraConfigKey} |->
                     IF k = PCIPassthruMMIOExtraConfigKey THEN ExtraConfigTrue ELSE mmioSize])
        ELSE extraConfig

\* A faulty variant of updateConfigSpecExtraConfig that also writes the keys
\* whose current value differs from the expected one; C8 must tell it from the
\* real one.
updateConfigSpecExtraConfig_Overwrite(config, configSpec, vmImage, vmClassSpec, vmObj, vmMetadata, globalExtraConfig, fssThunderPci) ==
    LET rendered == [k \in DOMAIN globalExtraConfig |->
                        renderTemplateFn(globalExtraConfig[k], vmObj.Spec)]
        metaKeys == IF vmMetadata # Nil /\ Deref(vmMetadata).Transport = "ExtraConfig"
                    THEN {k \in DOMAIN Deref(vmMetadata).Data :
                             HasPrefix(k, ExtraConfigGuestInfoPrefix)}
                    ELSE {}
        withMeta == MapOverlay(rendered, [k \in metaKeys |-> Deref(vmMetadata).Data[k]])
        virtualDevices == vmClassSpec.Hardware.Devices
        nDDP == Len(virtualDevices.DynamicDirectPathIODevices)
        nVGPU == Len(virtualDevices.VGPUDevices)
        withPowerOff == IF fssThunderPci /\ nDDP > 0
                        THEN MapOverlay(withMeta,
                                 [k \in {MMPowerOffVMExtraConfigKey} |-> ExtraConfigTrue])
                        ELSE withMeta
        extraConfig == IF fssThunderPci /\ (nVGPU > 0 \/ nDDP > 0)
                       THEN setMMIOExtraConfig(vmObj.Annotations, withPowerOff)
                       ELSE withPowerOff
        currentExtraConfig == config.ExtraConfig
        added == [k \in {x \in DOMAIN extraConfig :
                           \/ x \notin DOMAIN currentExtraConfig
                           \/ currentExtraConfig[x] # extraConfig[x]} |-> extraConfig[k]]
        compat == /\ vmImage.V1Alpha1Compatible
                  /\ VMOperatorV1Alpha1ExtraConfigKey \in DOMAIN currentExtraConfig
                  /\ currentExtraConfig[VMOperatorV1Alpha1ExtraConfigKey] =
                         VMOperatorV1Alpha1ConfigReady
        final == IF compat
                 THEN MapOverlay(added, [k \in {VMOperatorV1Alpha1ExtraConfigKey} |->
                                            VMOperatorV1Alpha1ConfigEnabled])
                 ELSE added
    IN  [configSpec EXCEPT !.ExtraConfig = MapOverlay(configSpec.ExtraConfig, final)]

updateConfigSpecExtraConfig(config, configSpec, vmImage, vmClassSpec, vmObj, vmMetadata, globalExtraConfig, fssThunderPci) ==
    LET rendered == [k \in DOMAIN globalExtraConfig |->
                        renderTemplateFn(globalExtraConfig[k], vmObj.Spec)]
        metaKeys == IF vmMetadata # Nil /\ Deref(vmMetadata).Transport = "ExtraConfig"
                    THEN {k \in DOMAIN Deref(vmMetadata).Data :
                             HasPrefix(k, ExtraConfigGuestInfoPrefix)}
                    ELSE {}
        withMeta == MapOverlay(rendered, [k \in metaKeys |-> Deref(vmMetadata).Data[k]])
        virtualDevices == vmClassSpec.Hardware.Devices
        nDDP == Len(virtualDevices.DynamicDirectPathIODevices)
        nVGPU == Len(virtualDevices.VGPUDevices)
        withPowerOff == IF fssThunderPci /\ nDDP > 0
                        THEN MapOverlay(withMeta,
                                 [k \in {MMPowerOffVMExtraConfigKey} |-> ExtraConfigTrue])
                        ELSE withMeta
        extraConfig == IF fssThunderPci /\ (nVGPU > 0 \/ nDDP > 0)
                       THEN setMMIOExtraConfig(vmObj.Annotations, withPowerOff)
                       ELSE withPowerOff
        currentExtraConfig == config.ExtraConfig
        added == [k \in DOMAIN extraConfig \ DOMAIN currentExtraConfig |-> extraConfig[k]]
        compat == /\ vmImage.V1Alpha1Compatible
                  /\ VMOperatorV1Alpha1ExtraConfigKey \in DOMAIN currentExtraConfig
                  /\ currentExtraConfig[VMOperatorV1Alpha1ExtraConfigKey] =
                         VMOperatorV1Alpha1ConfigReady
        final == IF compat
                 THEN MapOverlay(added, [k \in {VMOperatorV1Alpha1ExtraConfigKey} |->
                                            VMOperatorV1Alpha1ConfigEnabled])
                 ELSE added
    IN  [configSpec EXCEPT !.ExtraConfig = MapOverlay(configSpec.ExtraConfig, final)]

\* The property edits that bring the current vApp properties to the values of
\* the guest metadata; Nil when no property changes.
GetMergedvAppConfigSpec(data, property) ==
    LET edits == {id \in DOMAIN property \cap DOMAIN data : property[id] # data[id]}
    IN  IF edits = {} THEN Nil ELSE Ptr([Property |-> [id \in edits |-> data[id]]])

updateConfigSpecVAppConfig(config, configSpec, vmMetadata) ==
    IF config.VAppConfig = Nil \/ vmMetadata = Nil
    THEN configSpec
    ELSE IF Deref(vmMetadata).Transport # "OvfEnv"
    THEN configSpec
    ELSE LET vmConfigSpec == GetMergedvAppConfigSpec(Deref(vmMetadata).Data,
                                                     Deref(config.VAppConfig).Property)
         IN  IF vmConfigSpec # Nil
             THEN [configSpec EXCEPT !.VAppConfig = vmConfigSpec]
             ELSE configSpec

\* A faulty variant of updateConfigSpecChangeBlockTracking that writes the
\* desired flag whenever it is set, equal to the current one or not; C1 must
\* tell it from the real one.
updateConfigSpecChangeBlockTracking_AlwaysWrite(config, configSpec, vmSpec) ==
    IF vmSpec.AdvancedOptions = Nil
    THEN configSpec
    ELSE IF Deref(vmSpec.AdvancedOptions).ChangeBlockTracking = Nil
    THEN configSpec
    ELSE [configSpec EXCEPT !.ChangeTrackingEnabled =
             Deref(vmSpec.AdvancedOptions).ChangeBlockTracking]

updateConfigSpecChangeBlockTracking(config, configSpec, vmSpec) ==
    IF vmSpec.AdvancedOptions = Nil
    THEN configSpec
    ELSE IF Deref(vmSpec.AdvancedOptions).ChangeBlockTracking = Nil
    THEN configSpec
    ELSE IF config.ChangeTrackingEnabled # Deref(vmSpec.AdvancedOptions).ChangeBlockTracking
    THEN [configSpec EXCEPT !.ChangeTrackingEnabled =
             Deref(vmSpec.AdvancedOptions).ChangeBlockTracking]
    ELSE configSpec

updateHardwareConfigSpec(config, configSpec, vmClassSpec) ==
    LET nCPUs == Int32(vmClassSpec.Hardware.Cpus)
        memMB == memoryQuantityToMb(vmClassSpec.Hardware.Memory)
        c1 == IF config.Annotation # VCVMAnnotation
              THEN [configSpec EXCEPT !.Annotation = VCVMAnnotation] ELSE configSpec
        c2 == IF config.Hardware.NumCPU # nCPUs
              THEN [c1 EXCEPT !.NumCPUs = nCPUs] ELSE c1
        c3 == IF config.Hardware.MemoryMB # memMB
              THEN [c2 EXCEPT !.MemoryMB = memMB] ELSE c2
    IN  IF config.ManagedBy = Nil
        THEN [c3 EXCEPT !.ManagedBy = Ptr(ManagedByWcp)] ELSE c3

updateConfigSpec(vmObj, config, vmImage, vmClassSpec, vmMetadata, globalExtraConfig, minCPUFreq, fssThunderPci) ==
    LET c1 == updateHardwareConfigSpec(config, ZeroConfigSpec, vmClassSpec)
        c2 == updateConfigSpecCPUAllocation(config, c1, vmClassSpec, minCPUFreq)
        c3 == updateConfigSpecMemoryAllocation(config, c2, vmClassSpec)
        c4 == updateConfigSpecExtraConfig(config, c3, vmImage, vmClassSpec, vmObj,
                                          vmMetadata, globalExtraConfig, fssThunderPci)
        c5 == updateConfigSpecVAppConfig(config, c4, vmMetadata)
    IN  updateConfigSpecChangeBlockTracking(config, c5, vmObj.Spec)

\* Disk changes are computed outside this file; the model has no disk to change.
updateVirtualDiskDeviceChanges(vmObj, currentDisks) == <<>>

\* prePowerOnVMConfigSpec: the builder's delta plus the device changes.
prePowerOnVMConfigSpec(vmObj, config, updateArgs, sess) ==
    LET configSpec == updateConfigSpec(vmObj, config, updateArgs.VmImage,
                          updateArgs.VmClass.Spec, updateArgs.VmMetadata,
                          sess.extraConfig, sess.cpuMinMHzInCluster, sess.fssThunderPci)
        virtualDevices == config.Hardware.Device
        currentDisks == SelectByType(virtualDevices, "VirtualDisk")
        currentEthCards == SelectByType(virtualDevices, "VirtualEthernetCard")
        diskDeviceChanges == updateVirtualDiskDeviceChanges(vmObj, currentDisks)
        expectedEthCards == GetVirtualDeviceList(updateArgs.NetIfList)
        ethCardDeviceChanges == updateEthCardDeviceChanges(expectedEthCards, currentEthCards)
        currentPciDevices == SelectByType(virtualDevices, "VirtualPCIPassthrough")
        expectedPciDevices == createPCIDevices(updateArgs.VmClass.Spec.Hardware.Devices)
        pciDeviceChanges ==
            IF sess.fssThunderPci
            THEN updatePCIDeviceChanges(expectedPciDevices, currentPciDevices)
            ELSE <<>>
    IN  [configSpec EXCEPT !.DeviceChange =
            configSpec.DeviceChange \o diskDeviceChanges \o ethCardDeviceChanges
                \o pciDeviceChanges]

\* A faulty variant of poweredOnVMConfigSpec that leaves change block tracking
\* out of the delta; C5 must tell it from the real one.
poweredOnVMConfigSpec_NoTracking(vmObj, config) == ZeroConfigSpec

\* A faulty variant of poweredOnVMConfigSpec that also sets the CPU
\* count of a four-CPU class; C21 must tell it from the real one.
poweredOnVMConfigSpec_WithCpus(vmObj, config) ==
    LET configSpec == updateConfigSpecChangeBlockTracking(config, ZeroConfigSpec, vmObj.Spec)
    IN  [configSpec EXCEPT !.NumCPUs = IF config.Hardware.NumCPU # 4 THEN 4 ELSE 0]

\* poweredOnVMReconfigure's delta: change-block-tracking only.
poweredOnVMConfigSpec(vmObj, config) ==
    updateConfigSpecChangeBlockTracking(config, ZeroConfigSpec, vmObj.Spec)

---------------------------------------------------------------------------
(* SpecMatch: the device matchers as they are called from                  *)
(* prePowerOnVMConfigSpec, over bounded device lists.                      *)

\* What the network provider may allocate for a desired interface.
VifUniverse ==
    {[AddressType |-> "generated", MacAddress |-> "", ExternalId |-> "",
      Backing |-> NetworkBacking("net-a")],
     [AddressType |-> "manual", MacAddress |-> "aa:bb", ExternalId |-> "",
      Backing |-> NetworkBacking("net-a")],
     [AddressType |-> "generated", MacAddress |-> "", ExternalId |-> "ext-1",
      Backing |-> OpaqueBacking("opaque-1")],
     [AddressType |-> "generated", MacAddress |-> "", ExternalId |-> "",
      Backing |-> NetworkBacking("net-b")],
     [AddressType |-> "generated", MacAddress |-> "", ExternalId |-> "",
      Backing |-> DVPortBacking("switch-1", "pg-1")]}

\* The network adapters a VM may currently have (keys are given by position).
CurEthUniverse ==
    {[AddressType |-> "assigned", MacAddress |-> "aa:bb", ExternalId |-> "",
      Backing |-> NetworkBacking("net-a")],
     [AddressType |-> "assigned", MacAddress |-> "cc:dd", ExternalId |-> "",
      Backing |-> NetworkBacking("net-a")],
     [AddressType |-> "assigned", MacAddress |-> "cc:dd", ExternalId |-> "ext-1",
      Backing |-> OpaqueBacking("opaque-1")],
     [AddressType |-> "assigned", MacAddress |-> "cc:dd", ExternalId |-> "",
      Backing |-> OpaqueBacking("opaque-1")],
     [AddressType |-> "assigned", MacAddress |-> "cc:dd", ExternalId |-> "",
      Backing |-> DVPortBacking("switch-1", "pg-1")],
     [AddressType |-> "assigned", MacAddress |-> "cc:dd", ExternalId |-> "",
      Backing |-> DVPortBacking("switch-1", "pg-2")],
     [AddressType |-> "assigned", MacAddress |-> "cc:dd", ExternalId |-> "",
      Backing |-> NilBacking],
     [AddressType |-> "assigned", MacAddress |-> "cc:dd", ExternalId |-> "",
      Backing |-> LegacyBacking]}

VGPUUniverse == {[ProfileName |-> "profileA"], [ProfileName |-> "profileB"]}

DDPIOUniverse ==
    {[VendorID |-> 4318, DeviceID |-> 7864, CustomLabel |-> "label-1"],
     [VendorID |-> 4318, DeviceID |-> 7865, CustomLabel |-> "label-1"]}

AllowedDev(vendorId, deviceId) == [VendorId |-> vendorId, DeviceId |-> deviceId]

\* The passthrough backings a VM may currently have.
CurPciUniverse ==
    {VmiopBacking("profileA"),
     VmiopBacking("profileB"),
     DynamicBacking(<<AllowedDev(4318, 7864)>>, "label-1"),
     DynamicBacking(<<AllowedDev(4318, 7865), AllowedDev(4318, 7864)>>, "label-1"),
     DynamicBacking(<<AllowedDev(4318, 7864)>>, "label-2"),
     NilBacking,
     PlainPciBacking}

\* Device keys the hypervisor assigns: never negative, distinct per device.
HvEthCards(cards) ==
    [i \in 1..Len(cards) |->
        EthCard(4000 + i, cards[i].AddressType, cards[i].MacAddress,
                cards[i].ExternalId, cards[i].Backing)]

HvPciDevices(backings) ==
    [i \in 1..Len(backings) |-> createPCIPassThroughDevice(13000 + i, backings[i])]

\* The interface list prepareVMForPowerOn hands on: the ensured list, or the
\* list faked up from the current adapters when the ensured list is empty.
ResolvedNetIfList(networkInterfaces, config) ==
    LET netIfList == ensureNetworkInterfaces(networkInterfaces)
    IN  IF Len(netIfList) = 0 THEN fakeUpClonedNetIfList(config) ELSE netIfList

HardwareOnly(devices) == [Hardware |-> [Device |-> devices]]

IdlePass ==
    /\ hv = Nil /\ vm = Nil /\ vmConfigArgs = Nil /\ session = Nil /\ env = Nil
    /\ pc = "idle" /\ moVM = Nil /\ local = Nil /\ calls = <<>> /\ result = "none"
    /\ pass = 0 /\ prev = Nil

InitMatch ==
    /\ IdlePass
    /\ matchOut = Nil
    /\ \/ \E vifs \in SeqsUpTo(VifUniverse, MaxDevs),
             cards \in SeqsUpTo(CurEthUniverse, MaxDevs) :
             LET current == HvEthCards(cards)
             IN  matchIn = [kind |-> "eth",
                            expected |-> GetVirtualDeviceList(
                                ResolvedNetIfList(vifs, HardwareOnly(current))),
                            current |-> current]
       \/ \E vgpus \in SeqsUpTo(VGPUUniverse, MaxDevs),
             ddps \in SeqsUpTo(DDPIOUniverse, MaxDevs),
             backings \in SeqsUpTo(CurPciUniverse, MaxDevs) :
             matchIn = [kind |-> "pci",
                        expected |-> createPCIDevices(
                            [VGPUDevices |-> vgpus, DynamicDirectPathIODevices |-> ddps]),
                        current |-> HvPciDevices(backings)]

MatchEthCards ==
    /\ matchOut = Nil
    /\ matchIn.kind = "eth"
    /\ matchOut' = Ptr(updateEthCardDeviceChanges(matchIn.expected, matchIn.current))
    /\ UNCHANGED <<matchIn, passVars>>

MatchPciDevices ==
    /\ matchOut = Nil
    /\ matchIn.kind = "pci"
    /\ matchOut' = Ptr(updatePCIDeviceChanges(matchIn.expected, matchIn.current))
    /\ UNCHANGED <<matchIn, passVars>>

NextMatch == MatchEthCards \/ MatchPciDevices

SpecMatch == InitMatch /\ [][NextMatch]_vars

---------------------------------------------------------------------------
(* Claims about the device matchers. *)

MatchDone == matchOut # Nil

Changes == Deref(matchOut)

AddDevices(changes) ==
    LET idx == {i \in 1..Len(changes) : changes[i].Operation = "add"}
    IN  {changes[i].Device : i \in idx}

RemoveDevices(changes) ==
    LET idx == {i \in 1..Len(changes) : changes[i].Operation = "remove"}
    IN  {changes[i].Device : i \in idx}

CountOp(changes, op) == Cardinality({i \in 1..Len(changes) : changes[i].Operation = op})

\* C6: device matcher symmetry.  The change list has one entry per current
\* device left unmatched and one per expected device left unmatched (so the
\* matched devices number the same on both sides), every Add names a device
\* of expected, every Remove names a device of current, and no device is both
\* added and removed.
C6_MatcherSymmetry ==
    MatchDone =>
        LET adds == CountOp(Changes, "add")
            removes == CountOp(Changes, "remove")
        IN  /\ Len(Changes) = adds + removes
            /\ adds <= Len(matchIn.expected)
            /\ removes <= Len(matchIn.current)
            /\ Len(matchIn.expected) - adds = Len(matchIn.current) - removes
            /\ AddDevices(Changes) \subseteq Range(matchIn.expected)
            /\ RemoveDevices(Changes) \subseteq Range(matchIn.current)
            /\ AddDevices(Changes) \cap RemoveDevices(Changes) = {}

\* a is b with some elements left out, order kept.
RECURSIVE IsSubSeq(_, _)
IsSubSeq(a, b) ==
    IF a = <<>> THEN TRUE
    ELSE IF b = <<>> THEN FALSE
    ELSE IF Head(a) = Head(b) THEN IsSubSeq(Tail(a), Tail(b))
    ELSE IsSubSeq(a, Tail(b))

\* C7: remove-before-add in one matcher's output.  The change list is a run
\* of Remove entries, whose devices keep the order they have in the current
\* list, followed by a run of Add entries, whose devices keep the order of the
\* expected list.
C7_RemoveBeforeAdd ==
    MatchDone =>
        LET removes == CountOp(Changes, "remove")
            devs == [i \in 1..Len(Changes) |-> Changes[i].Device]
        IN  /\ \A i \in 1..Len(Changes) :
                  Changes[i].Operation = IF i <= removes THEN "remove" ELSE "add"
            /\ IsSubSeq(SubSeq(devs, 1, removes), matchIn.current)
            /\ IsSubSeq(SubSeq(devs, removes + 1, Len(devs)), matchIn.expected)

\* C7 witness: a matcher returned a list holding both a Remove and an Add.
C7_Witness ==
    /\ MatchDone
    /\ CountOp(Changes, "remove") > 0
    /\ CountOp(Changes, "add") > 0

---------------------------------------------------------------------------
(* The hypervisor behind res.VirtualMachine: what Reconfigure, Customize   *)
(* and SetPowerState do to the VM when they succeed.                       *)

MergeAllocation(current, written) ==
    IF written = Nil THEN current
    ELSE LET w == Deref(written)
             c == IF current = Nil THEN [Reservation |-> Nil, Limit |-> Nil]
                  ELSE Deref(current)
         IN  Ptr([Reservation |-> IF w.Reservation # Nil THEN w.Reservation
                                  ELSE c.Reservation,
                  Limit |-> IF w.Limit # Nil THEN w.Limit ELSE c.Limit])

MaxKey(devices) ==
    IF devices = <<>> THEN 0
    ELSE CHOOSE k \in {devices[i].Key : i \in 1..Len(devices)} :
            \A i \in 1..Len(devices) : devices[i].Key <= k

\* The device list after the device changes, applied in order: a Remove takes
\* the device out, an Add puts it in under a key the hypervisor assigns.
RECURSIVE ApplyDeviceChanges(_, _)
ApplyDeviceChanges(devices, changes) ==
    IF changes = <<>> THEN devices
    ELSE LET ch == Head(changes)
             after ==
                 IF ch.Operation = "remove"
                 THEN LET hit == {i \in 1..Len(devices) : devices[i] = ch.Device}
                      IN  IF hit = {} THEN devices
                          ELSE RemoveAt(devices, CHOOSE i \in hit : TRUE)
                 ELSE Append(devices,
                             [ch.Device EXCEPT !.Key =
                                 IF MaxKey(devices) < 4000 THEN 4000
                                 ELSE MaxKey(devices) + 1])
         IN  ApplyDeviceChanges(after, Tail(changes))

\* Reconfigure: the hypervisor adopts exactly the written fields.
ApplyConfigSpec(config, configSpec) ==
    [config EXCEPT
        !.Annotation = IF configSpec.Annotation # "" THEN configSpec.Annotation ELSE @,
        !.Hardware.NumCPU = IF configSpec.NumCPUs # 0 THEN configSpec.NumCPUs ELSE @,
        !.Hardware.MemoryMB = IF configSpec.MemoryMB # 0 THEN configSpec.MemoryMB ELSE @,
        !.Hardware.Device = ApplyDeviceChanges(@, configSpec.DeviceChange),
        !.ManagedBy = IF configSpec.ManagedBy # Nil THEN configSpec.ManagedBy ELSE @,
        !.CpuAllocation = MergeAllocation(@, configSpec.CpuAllocation),
        !.MemoryAllocation = MergeAllocation(@, configSpec.MemoryAllocation),
        !.ExtraConfig = MapOverlay(@, configSpec.ExtraConfig),
        !.VAppConfig = IF configSpec.VAppConfig # Nil
                       THEN Ptr([Property |-> MapOverlay(Deref(@).Property,
                                                Deref(configSpec.VAppConfig).Property)])
                       ELSE @,
        !.ChangeTrackingEnabled = IF configSpec.ChangeTrackingEnabled # Nil
                                  THEN configSpec.ChangeTrackingEnabled ELSE @]

HvReconfigure(h, configSpec) ==
    [h EXCEPT !.Config = Ptr(ApplyConfigSpec(Deref(h.Config), configSpec))]

\* Customize: the customization is outstanding until the guest has run it.
HvCustomize(h) ==
    [h EXCEPT !.Config = Ptr([Deref(h.Config) EXCEPT !.ExtraConfig =
        MapOverlay(@, [k \in {GOSCPendingExtraConfigKey} |-> "imc.cab"])])]

HvSetPowerState(h, powerState) == [h EXCEPT !.Runtime.PowerState = powerState]

---------------------------------------------------------------------------
(* The state a Converge pass starts from. *)

PoweredOff == "poweredOff"

PoweredOn == "poweredOn"

Suspended == "suspended"

VSphereCustomizationBypassDisable == "disable"

AdvancedOptions(cbt) == IF cbt = Nil THEN Nil ELSE Ptr([ChangeBlockTracking |-> cbt])

TriState == {Nil, Ptr(TRUE), Ptr(FALSE)}

PvcVolume(name) == [Name |-> name, PersistentVolumeClaim |-> Ptr([ClaimName |-> name])]

VsphereVolume(name) == [Name |-> name, PersistentVolumeClaim |-> Nil]

\* Desired volumes with the volume status the volume controller has written.
VolumeCases ==
    {[Volumes |-> <<>>, Status |-> <<>>],
     [Volumes |-> <<PvcVolume("vol-1")>>,
      Status |-> <<[Name |-> "vol-1", Attached |-> TRUE]>>],
     [Volumes |-> <<PvcVolume("vol-1")>>,
      Status |-> <<[Name |-> "vol-1", Attached |-> FALSE]>>],
     [Volumes |-> <<PvcVolume("vol-1")>>, Status |-> <<>>],
     [Volumes |-> <<VsphereVolume("vol-2"), PvcVolume("vol-1")>>,
      Status |-> <<[Name |-> "vol-1", Attached |-> TRUE]>>]}

\* The pending-customization key of the current extra-config: absent, empty, set.
PendingCases ==
    {EmptyMap,
     [k \in {GOSCPendingExtraConfigKey} |-> ""],
     [k \in {GOSCPendingExtraConfigKey} |-> "imc.cab"]}

\* Desired interfaces against current adapters.
NetCases ==
    LET vif == [AddressType |-> "generated", MacAddress |-> "", ExternalId |-> "",
                Backing |-> NetworkBacking("net-a")]
        card(b) == [AddressType |-> "assigned", MacAddress |-> "aa:bb",
                    ExternalId |-> "", Backing |-> b]
    IN  {[vifs |-> <<>>, cards |-> <<>>],
         [vifs |-> <<vif>>, cards |-> <<>>],
         [vifs |-> <<vif>>, cards |-> <<card(NetworkBacking("net-a"))>>],
         [vifs |-> <<>>, cards |-> <<card(NetworkBacking("net-a"))>>],
         [vifs |-> <<>>, cards |-> <<card(NilBacking)>>]}

\* The interface cases and the volume cases are varied one at a time around
\* these two: one interface to create, one claimed volume that is attached.
BaseNetCase == CHOOSE net \in NetCases : net.vifs # <<>> /\ net.cards = <<>>

BaseVolumeCase ==
    [Volumes |-> <<PvcVolume("vol-1")>>,
     Status |-> <<[Name |-> "vol-1", Attached |-> TRUE]>>]

NoAffinity == [ClusterModuleName |-> "", ProviderTags |-> "", ClusterModules |-> <<>>]

\* The anti-affinity annotations of the VM against the modules of its resource
\* policy: no annotation, the annotated module known, the annotated module
\* unknown, one of the two annotations missing.
AffinityCases ==
    {NoAffinity,
     [ClusterModuleName |-> "group-1", ProviderTags |-> "tag-1",
      ClusterModules |-> <<[GroupName |-> "group-1", ModuleUuid |-> "module-1"]>>],
     [ClusterModuleName |-> "group-1", ProviderTags |-> "tag-1",
      ClusterModules |-> <<>>],
     [ClusterModuleName |-> "group-1", ProviderTags |-> "",
      ClusterModules |-> <<[GroupName |-> "group-1", ModuleUuid |-> "module-1"]>>],
     [ClusterModuleName |-> "", ProviderTags |-> "tag-1",
      ClusterModules |-> <<[GroupName |-> "group-1", ModuleUuid |-> "module-1"]>>]}

WithAffinity(vmObj, affinity) ==
    [vmObj EXCEPT !.Annotations.ClusterModuleName = affinity.ClusterModuleName,
                  !.Annotations.ProviderTags = affinity.ProviderTags]

\* The class against the current hardware and allocation.
ClassSpec(cpus, cpuRequest, vgpus) ==
    [Hardware |-> [Cpus |-> cpus, Memory |-> 4,
                   Devices |-> [VGPUDevices |-> vgpus,
                                DynamicDirectPathIODevices |-> <<>>]],
     Policies |-> [Resources |->
                      [Requests |-> [Cpu |-> cpuRequest, Memory |-> 0],
                       Limits |-> [Cpu |-> 0, Memory |-> 0]]]]

ClassCases ==
    {ClassSpec(2, 0, <<>>),
     ClassSpec(4, 1500, <<[ProfileName |-> "profileA"]>>)}

ConfigInfo(cbt, extraConfig, devices) ==
    [Uuid |-> "bios-1", Annotation |-> VCVMAnnotation,
     Hardware |-> [NumCPU |-> 2, MemoryMB |-> 2, Device |-> devices],
     ManagedBy |-> Ptr(ManagedByWcp),
     CpuAllocation |-> Nil, MemoryAllocation |-> Nil,
     ExtraConfig |-> extraConfig, VAppConfig |-> Nil,
     ChangeTrackingEnabled |-> cbt]

\* What the guest of a running VM reports: its address and one adapter.
GuestInfo ==
    [IpAddress |-> "192.168.1.10",
     Net |-> <<[Connected |-> TRUE, MacAddress |-> "aa:bb",
                IpConfig |-> [IpAddress |-> <<[IpAddress |-> "192.168.1.10",
                                               PrefixLength |-> 24]>>]]>>]

\* The VM as the hypervisor holds it; a VM that is powered on has guest
\* information, one that is not has none.
HvVM(powerState, config) ==
    [Runtime |-> [PowerState |-> powerState,
                  ConnectionState |-> IF config = Nil THEN "orphaned" ELSE "connected",
                  Host |-> IF config = Nil THEN Nil ELSE Ptr("host-1")],
     Config |-> config,
     Guest |-> IF powerState = "poweredOn" THEN Ptr(GuestInfo) ELSE Nil,
     Summary |-> [Config |-> [Uuid |-> "bios-1", InstanceUuid |-> "instance-1"]]]

EmptyStatus ==
    [Phase |-> "", PowerState |-> "", UniqueID |-> "", BiosUUID |-> "",
     InstanceUUID |-> "", Host |-> "stale-host", VmIp |-> "stale-ip",
     NetworkInterfaces |-> <<>>, ChangeBlockTracking |-> Nil, Volumes |-> <<>>]

VirtualMachine(powerState, cbt, bypass, net, vol) ==
    [Name |-> "vm-1",
     Annotations |-> [VSphereCustomizationBypass |-> bypass,
                      PCIPassthruMMIOOverride |-> "",
                      ClusterModuleName |-> "", ProviderTags |-> ""],
     Spec |-> [PowerState |-> powerState, ImageName |-> "image-1",
               NetworkInterfaces |-> net.vifs, Volumes |-> vol.Volumes,
               AdvancedOptions |-> AdvancedOptions(cbt)],
     Status |-> [EmptyStatus EXCEPT !.Volumes = vol.Status]]

ConfigArgs(class) ==
    [VmClass |-> [Spec |-> class],
     VmImage |-> [V1Alpha1Compatible |-> FALSE],
     VmMetadata |-> Nil,
     ResourcePolicy |-> [Status |-> [ClusterModules |-> <<>>]]]

TheSession ==
    [extraConfig |-> EmptyMap, cpuMinMHzInCluster |-> 2000,
     fssThunderPci |-> TRUE, fssV1Alpha2 |-> FALSE]

NoLocal == [NetIfList |-> <<>>, DNSServers |-> <<>>, configSpec |-> Nil]

NoResult == [kind |-> "none", msg |-> ""]

\* What the model remembers of the pass before this one: how it ended, how
\* many hypervisor writes it made, whether its Reconfigure call succeeded,
\* whether its checkpoint-restore call failed.
NoPrev == [result |-> "none", writes |-> 0, reconfigured |-> FALSE, fsrFailed |-> FALSE]

Init ==
    /\ matchIn = Nil /\ matchOut = Nil
    /\ pc = "ready" /\ moVM = Nil /\ local = NoLocal /\ calls = <<>>
    /\ result = NoResult /\ pass = 0 /\ prev = NoPrev
    /\ env = [members |-> {}]
    /\ session = TheSession
    /\ \E desiredPower \in {PoweredOn, PoweredOff}, desiredCbt \in TriState,
          bypass \in {"", VSphereCustomizationBypassDisable},
          net \in NetCases, vol \in VolumeCases, class \in ClassCases,
          affinity \in AffinityCases :
          /\ net = BaseNetCase \/ vol = BaseVolumeCase
          /\ affinity = NoAffinity \/ (net = BaseNetCase /\ vol = BaseVolumeCase)
          /\ vm = WithAffinity(VirtualMachine(desiredPower, desiredCbt, bypass, net, vol),
                               affinity)
          /\ vmConfigArgs = [ConfigArgs(class) EXCEPT
                                !.ResourcePolicy.Status.ClusterModules =
                                    affinity.ClusterModules]
          /\ \E runtime \in {PoweredOff, PoweredOn, Suspended} :
                \/ hv = HvVM(runtime, Nil)
                \/ \E cbt \in TriState, pending \in PendingCases :
                      hv = HvVM(runtime,
                                Ptr(ConfigInfo(cbt, pending, HvEthCards(net.cards))))
                \/ /\ net = BaseNetCase /\ vol = BaseVolumeCase
                   /\ affinity = NoAffinity
                   /\ hv = [HvVM(runtime, Ptr(ConfigInfo(Nil, EmptyMap,
                                                         HvEthCards(net.cards))))
                               EXCEPT !.Runtime.Host = Nil]

---------------------------------------------------------------------------
(* One Converge pass: UpdateVirtualMachine, a step per call it makes.      *)

Call(op, arg, ok) == [op |-> op, arg |-> arg, ok |-> ok]

\* The hypervisor write calls.
WriteOps == {"Reconfigure", "Customize", "SetPowerState", "InvokeFsr"}

CountCalls(log, ops) == Cardinality({i \in 1..Len(log) : log[i].op \in ops})

Ok == [kind |-> "ok", msg |-> ""]

Err(msg) == [kind |-> "error", msg |-> msg]

\* A nil pointer dereference: the pass does not return.
Panic == [kind |-> "panic", msg |-> "nil pointer dereference"]

Config == Deref(Deref(moVM).Config)

isOff == Deref(moVM).Runtime.PowerState = PoweredOff

\* The pass returns r.
Return(r) == /\ result' = r /\ pc' = "done"

Goto(label) == /\ pc' = label /\ UNCHANGED result

\* A faulty variant of PowerStateBranch that skips status projection when the
\* VM already is off as desired; C14 must tell it from the real one.
PowerStateBranch_NoOpSkipsStatus(desired, snapshot) ==
    IF desired = PoweredOff
    THEN IF snapshot.Runtime.PowerState # PoweredOff THEN "SetPowerStateOff"
         ELSE "attachTagsAndModules"
    ELSE IF desired = PoweredOn
    THEN IF snapshot.Config = Nil THEN "configUnavailable"
         ELSE IF snapshot.Runtime.PowerState = PoweredOff THEN "ensureNetworkInterfaces"
         ELSE "poweredOnVMReconfigure"
    ELSE "updateVMStatus"

\* Lines 952-989: where the power state switch sends the pass.
PowerStateBranch(desired, snapshot) ==
    IF desired = PoweredOff
    THEN IF snapshot.Runtime.PowerState # PoweredOff THEN "SetPowerStateOff"
         ELSE "updateVMStatus"
    ELSE IF desired = PoweredOn
    THEN IF snapshot.Config = Nil THEN "configUnavailable"
         ELSE IF snapshot.Runtime.PowerState = PoweredOff THEN "ensureNetworkInterfaces"
         ELSE "poweredOnVMReconfigure"
    ELSE "updateVMStatus"

\* Line 950: vmCtx.VM.Status.BiosUUID = moVM.Config.Uuid.  The outcome is the
\* status after the assignment, or Nil when moVM.Config is nil and the
\* dereference panics.
SetBiosUUID(vmObj, snapshot) ==
    IF snapshot.Config = Nil THEN Nil
    ELSE Ptr([vmObj EXCEPT !.Status.BiosUUID = Deref(snapshot.Config).Uuid])

\* Lines 937-973: fetch the snapshot, record the BIOS UUID, branch.
Begin ==
    /\ pc \in {"ready", "done"}
    /\ pass < MaxPasses
    /\ pass' = pass + 1
    /\ prev' = [result |-> result.kind, writes |-> CountCalls(calls, WriteOps),
                reconfigured |-> \E i \in 1..Len(calls) :
                                    calls[i].op = "Reconfigure" /\ calls[i].ok,
                fsrFailed |-> \E i \in 1..Len(calls) :
                                 calls[i].op = "InvokeFsr" /\ ~calls[i].ok]
    /\ calls' = <<>>
    /\ local' = NoLocal
    /\ \E getOk \in BOOLEAN :
          IF ~getOk
          THEN /\ Return(Err("GetProperties failed"))
               /\ moVM' = Nil
               /\ UNCHANGED vm
          ELSE /\ moVM' = Ptr([Runtime |-> hv.Runtime, Config |-> hv.Config])
               /\ LET withUuid == SetBiosUUID(vm, hv)
                      next == PowerStateBranch(vm.Spec.PowerState, hv)
                  IN  IF withUuid = Nil
                      THEN /\ Return(Panic)
                           /\ UNCHANGED vm
                      ELSE /\ vm' = Deref(withUuid)
                           /\ IF next = "configUnavailable"
                              THEN Return(Err("VM config is not available"))
                              ELSE /\ pc' = next
                                   /\ result' = NoResult
    /\ UNCHANGED <<hv, vmConfigArgs, session, env, matchVars>>

\* Lines 954-959.
SetPowerStateOff ==
    /\ pc = "SetPowerStateOff"
    /\ \E ok \in BOOLEAN :
          /\ calls' = Append(calls, Call("SetPowerState", PoweredOff, ok))
          /\ IF ok
             THEN /\ hv' = HvSetPowerState(hv, PoweredOff)
                  /\ Goto("updateVMStatus")
             ELSE /\ UNCHANGED hv
                  /\ Return(Err("SetPowerState failed"))
    /\ UNCHANGED <<vm, vmConfigArgs, session, env, moVM, local, pass, prev, matchVars>>

\* A faulty variant of prepareVMForPowerOnNext that powers on without the
\* volume check; C2 must tell it from the real one.
prepareVMForPowerOnNext_NoVolumeCheck(step) ==
    CASE step = "ensureNetworkInterfaces" -> "GetNameservers"
      [] step = "GetNameservers" -> "prePowerOnVMReconfigure"
      [] step = "prePowerOnVMReconfigure" -> "customizeVM"
      [] step = "customizeVM" -> "SetPowerStateOn"
      [] step = "ensureCNSVolumes" -> "SetPowerStateOn"

\* Lines 732-777 and 979: the order of the steps before power-on.
prepareVMForPowerOnNext(step) ==
    CASE step = "ensureNetworkInterfaces" -> "GetNameservers"
      [] step = "GetNameservers" -> "prePowerOnVMReconfigure"
      [] step = "prePowerOnVMReconfigure" -> "customizeVM"
      [] step = "customizeVM" -> "ensureCNSVolumes"
      [] step = "ensureCNSVolumes" -> "SetPowerStateOn"

\* Lines 732-742: one EnsureNetworkInterface call per desired interface, the
\* first failure returned; an empty list is replaced by the faked-up one.
EnsureNetworkInterfaces ==
    /\ pc = "ensureNetworkInterfaces"
    /\ LET n == Len(vm.Spec.NetworkInterfaces)
       IN  \E failAt \in 0..n :
              LET made == IF failAt = 0 THEN n ELSE failAt
                  log == [i \in 1..made |->
                             Call("EnsureNetworkInterface", i, i # failAt)]
              IN  /\ calls' = calls \o log
                  /\ IF failAt # 0
                     THEN /\ Return(Err("EnsureNetworkInterface failed"))
                          /\ UNCHANGED local
                     ELSE /\ Goto(prepareVMForPowerOnNext(pc))
                          /\ local' = [local EXCEPT !.NetIfList =
                                ResolvedNetIfList(vm.Spec.NetworkInterfaces, Config)]
    /\ UNCHANGED <<hv, vm, vmConfigArgs, session, env, moVM, pass, prev, matchVars>>

\* updateVmConfigArgsTemplates' renderTemplate: a text that does not parse or
\* does not execute is kept.
renderTemplate(templateStr, templateData) ==
    CASE templateStr = "{{ (index .NameServers 0) }}" ->
            IF Len(templateData.NameServers) > 0 THEN templateData.NameServers[1]
            ELSE templateStr
      [] OTHER -> templateStr

updateVmConfigArgsTemplates(args, netIfList, dnsServers) ==
    IF args.VmMetadata = Nil THEN args
    ELSE LET templateData == [NetworkInterfaces |-> netIfList, NameServers |-> dnsServers]
             data == Deref(args.VmMetadata).Data
         IN  [args EXCEPT !.VmMetadata = Ptr([Deref(args.VmMetadata) EXCEPT !.Data =
                 [k \in DOMAIN data |-> renderTemplate(data[k], templateData)]])]

\* A faulty variant of GetNameservers that returns the error of a failed DNS
\* lookup; C12 must tell it from the real one.
GetNameservers_Fatal ==
    /\ pc = "GetNameservers"
    /\ \E ok \in BOOLEAN :
          LET dnsServers == IF ok THEN <<"10.0.0.53">> ELSE <<>>
          IN  /\ calls' = Append(calls, Call("GetNameservers", "", ok))
              /\ local' = [local EXCEPT !.DNSServers = dnsServers]
              /\ vmConfigArgs' = IF session.fssV1Alpha2
                                 THEN updateVmConfigArgsTemplates(vmConfigArgs,
                                          local.NetIfList, dnsServers)
                                 ELSE vmConfigArgs
              /\ IF ok THEN Goto(prepareVMForPowerOnNext(pc))
                 ELSE Return(Err("GetNameservers failed"))
    /\ UNCHANGED <<hv, vm, session, env, moVM, pass, prev, matchVars>>

\* Lines 744-760: the DNS lookup, whose failure is only logged, and the
\* rendering of the guest metadata.
GetNameservers ==
    /\ pc = "GetNameservers"
    /\ \E ok \in BOOLEAN :
          LET dnsServers == IF ok THEN <<"10.0.0.53">> ELSE <<>>
          IN  /\ calls' = Append(calls, Call("GetNameservers", "", ok))
              /\ local' = [local EXCEPT !.DNSServers = dnsServers]
              /\ vmConfigArgs' = IF session.fssV1Alpha2
                                 THEN updateVmConfigArgsTemplates(vmConfigArgs,
                                          local.NetIfList, dnsServers)
                                 ELSE vmConfigArgs
    /\ Goto(prepareVMForPowerOnNext(pc))
    /\ UNCHANGED <<hv, vm, session, env, moVM, pass, prev, matchVars>>

UpdateArgs ==
    [VmImage |-> vmConfigArgs.VmImage, VmClass |-> vmConfigArgs.VmClass,
     VmMetadata |-> vmConfigArgs.VmMetadata, NetIfList |-> local.NetIfList,
     DNSServers |-> local.DNSServers]

\* Lines 580-601.
PrePowerOnVMReconfigure ==
    /\ pc = "prePowerOnVMReconfigure"
    /\ LET configSpec == prePowerOnVMConfigSpec(vm, Config, UpdateArgs, session)
       IN  /\ local' = [local EXCEPT !.configSpec = Ptr(configSpec)]
           /\ IF ~IsZeroConfigSpec(configSpec)
              THEN \E ok \in BOOLEAN :
                      /\ calls' = Append(calls, Call("Reconfigure", "prePowerOn", ok))
                      /\ IF ok
                         THEN /\ hv' = HvReconfigure(hv, configSpec)
                              /\ Goto(prepareVMForPowerOnNext(pc))
                         ELSE /\ UNCHANGED hv
                              /\ Return(Err("Reconfigure failed"))
              ELSE /\ UNCHANGED <<calls, hv>>
                   /\ Goto(prepareVMForPowerOnNext(pc))
    /\ UNCHANGED <<vm, vmConfigArgs, session, env, moVM, pass, prev, matchVars>>

isCustomizationPendingExtraConfig(extraConfig) ==
    IF GOSCPendingExtraConfigKey \in DOMAIN extraConfig
    THEN extraConfig[GOSCPendingExtraConfigKey] # ""
    ELSE FALSE

\* The error a failed Customize call returns.
CustomizeErrors == {"CustomizationPending", "CustomizationFault"}

\* A faulty variant of isCustomizationPendingError that tolerates no fault;
\* C16 must tell it from the real one.
isCustomizationPendingError_None(err) == FALSE

isCustomizationPendingError(err) == err = "CustomizationPending"

\* A faulty variant of CustomizeGateOpen that does not look at the pending
\* key; C15 must tell it from the real one.
CustomizeGateOpen_IgnorePending(vmObj, config) ==
    vmObj.Annotations.VSphereCustomizationBypass # VSphereCustomizationBypassDisable

\* Lines 55-66: does customizeVM issue the Customize call?
CustomizeGateOpen(vmObj, config) ==
    IF vmObj.Annotations.VSphereCustomizationBypass = VSphereCustomizationBypassDisable
    THEN FALSE
    ELSE ~isCustomizationPendingExtraConfig(config.ExtraConfig)

\* Lines 49-92.
CustomizeVM ==
    /\ pc = "customizeVM"
    /\ IF ~CustomizeGateOpen(vm, Config)
       THEN /\ UNCHANGED <<calls, hv>>
            /\ Goto(prepareVMForPowerOnNext(pc))
       ELSE \E outcome \in {"ok"} \cup CustomizeErrors :
               /\ calls' = Append(calls, Call("Customize", outcome, outcome = "ok"))
               /\ hv' = IF outcome = "ok" THEN HvCustomize(hv) ELSE hv
               /\ IF outcome # "ok" /\ ~isCustomizationPendingError(outcome)
                  THEN Return(Err("Customize failed"))
                  ELSE Goto(prepareVMForPowerOnNext(pc))
    /\ UNCHANGED <<vm, vmConfigArgs, session, env, moVM, local, pass, prev, matchVars>>

\* A faulty variant of ensureCNSVolumes that lets a claimed volume without
\* status pass; C4 must tell it from the real one.
RECURSIVE ensureCNSVolumes_StatusOptional(_, _)
ensureCNSVolumes_StatusOptional(volumes, volumeStatus) ==
    IF volumes = <<>> THEN Ok
    ELSE LET volume == Head(volumes)
             hits == {i \in 1..Len(volumeStatus) : volumeStatus[i].Name = volume.Name}
             first == CHOOSE i \in hits : \A j \in hits : i <= j
         IN  IF volume.PersistentVolumeClaim = Nil \/ hits = {}
             THEN ensureCNSVolumes_StatusOptional(Tail(volumes), volumeStatus)
             ELSE IF ~volumeStatus[first].Attached
             THEN Err("Persistent volume not attached to VM")
             ELSE ensureCNSVolumes_StatusOptional(Tail(volumes), volumeStatus)

\* Lines 692-718: nil, or the error of the first claimed volume that is not
\* attached or has no status yet.
RECURSIVE ensureCNSVolumes(_, _)
ensureCNSVolumes(volumes, volumeStatus) ==
    IF volumes = <<>> THEN Ok
    ELSE LET volume == Head(volumes)
             hits == {i \in 1..Len(volumeStatus) : volumeStatus[i].Name = volume.Name}
             first == CHOOSE i \in hits : \A j \in hits : i <= j
         IN  IF volume.PersistentVolumeClaim = Nil
             THEN ensureCNSVolumes(Tail(volumes), volumeStatus)
             ELSE IF hits = {}
             THEN Err("Status update pending for persistent volume")
             ELSE IF ~volumeStatus[first].Attached
             THEN Err("Persistent volume not attached to VM")
             ELSE ensureCNSVolumes(Tail(volumes), volumeStatus)

\* Lines 772-777.
EnsureCNSVolumes ==
    /\ pc = "ensureCNSVolumes"
    /\ LET r == ensureCNSVolumes(vm.Spec.Volumes, vm.Status.Volumes)
       IN  /\ calls' = Append(calls, Call("ensureCNSVolumes", r.msg, r.kind = "ok"))
           /\ IF r.kind = "ok" THEN Goto(prepareVMForPowerOnNext(pc)) ELSE Return(r)
    /\ UNCHANGED <<hv, vm, vmConfigArgs, session, env, moVM, local, pass, prev, matchVars>>

\* A faulty variant of SetPowerStateOn that goes on to status projection when
\* the power-on failed; C11 must tell it from the real one.
SetPowerStateOn_IgnoreError ==
    /\ pc = "SetPowerStateOn"
    /\ \E ok \in BOOLEAN :
          /\ calls' = Append(calls, Call("SetPowerState", PoweredOn, ok))
          /\ hv' = IF ok THEN HvSetPowerState(hv, PoweredOn) ELSE hv
          /\ Goto("updateVMStatus")
    /\ UNCHANGED <<vm, vmConfigArgs, session, env, moVM, local, pass, prev, matchVars>>

\* Lines 979-982.
SetPowerStateOn ==
    /\ pc = "SetPowerStateOn"
    /\ \E ok \in BOOLEAN :
          /\ calls' = Append(calls, Call("SetPowerState", PoweredOn, ok))
          /\ IF ok
             THEN /\ hv' = HvSetPowerState(hv, PoweredOn)
                  /\ Goto("updateVMStatus")
             ELSE /\ UNCHANGED hv
                  /\ Return(Err("SetPowerState failed"))
    /\ UNCHANGED <<vm, vmConfigArgs, session, env, moVM, local, pass, prev, matchVars>>

\* Lines 785-794.
PoweredOnVMReconfigure ==
    /\ pc = "poweredOnVMReconfigure"
    /\ LET configSpec == poweredOnVMConfigSpec(vm, Config)
       IN  /\ local' = [local EXCEPT !.configSpec = Ptr(configSpec)]
           /\ IF ~IsZeroConfigSpec(configSpec)
              THEN \E ok \in BOOLEAN :
                      /\ calls' = Append(calls, Call("Reconfigure", "poweredOn", ok))
                      /\ IF ok
                         THEN /\ hv' = HvReconfigure(hv, configSpec)
                              /\ IF configSpec.ChangeTrackingEnabled # Nil
                                 THEN Goto("invokeFsrVirtualMachine")
                                 ELSE Goto("updateVMStatus")
                         ELSE /\ UNCHANGED hv
                              /\ Return(Err("Reconfigure failed"))
              ELSE /\ UNCHANGED <<calls, hv>>
                   /\ Goto("updateVMStatus")
    /\ UNCHANGED <<vm, vmConfigArgs, session, env, moVM, pass, prev, matchVars>>

\* Lines 799-804: the checkpoint save/restore after a change-tracking toggle.
InvokeFsrVirtualMachine ==
    /\ pc = "invokeFsrVirtualMachine"
    /\ \E ok \in BOOLEAN :
          /\ calls' = Append(calls, Call("InvokeFsr", "", ok))
          /\ IF ok THEN Goto("updateVMStatus") ELSE Return(Err("InvokeFsr failed"))
    /\ UNCHANGED <<hv, vm, vmConfigArgs, session, env, moVM, local, pass, prev, matchVars>>

\* Lines 857-859: the text ipAddress/prefix, kept as its three parts.
ipCIDRNotation(ipAddress, prefix) == <<ipAddress, "/", prefix>>

\* Lines 861-872.
nicInfoToNetworkIfStatus(nicInfo) ==
    [Connected |-> nicInfo.Connected,
     MacAddress |-> nicInfo.MacAddress,
     IpAddresses |-> [i \in 1..Len(nicInfo.IpConfig.IpAddress) |->
                        ipCIDRNotation(nicInfo.IpConfig.IpAddress[i].IpAddress,
                                       nicInfo.IpConfig.IpAddress[i].PrefixLength)]]

\* A faulty variant of ProjectStatus that stops at a failed host-name lookup;
\* C13 must tell it from the real one.
ProjectStatus_StopAtLookup(status, snapshot, hostName) ==
    LET first == [status EXCEPT
                     !.Phase = "Created",
                     !.PowerState = snapshot.Runtime.PowerState,
                     !.UniqueID = "vm-moref-1",
                     !.BiosUUID = snapshot.Summary.Config.Uuid,
                     !.InstanceUUID = snapshot.Summary.Config.InstanceUuid]
    IN  IF snapshot.Runtime.Host # Nil /\ hostName = Nil
        THEN first
        ELSE [first EXCEPT
                 !.Host = IF snapshot.Runtime.Host # Nil THEN Deref(hostName) ELSE "",
                 !.VmIp = IF snapshot.Guest # Nil THEN Deref(snapshot.Guest).IpAddress
                          ELSE "",
                 !.NetworkInterfaces =
                     IF snapshot.Guest # Nil
                     THEN [i \in 1..Len(Deref(snapshot.Guest).Net) |->
                              nicInfoToNetworkIfStatus(Deref(snapshot.Guest).Net[i])]
                     ELSE <<>>,
                 !.ChangeBlockTracking = IF snapshot.Config # Nil
                                         THEN Deref(snapshot.Config).ChangeTrackingEnabled
                                         ELSE Nil]

\* A faulty variant of ProjectStatus that clears the status host when the
\* lookup failed; C22 must tell it from the real one.
ProjectStatus_ClearHostOnFailure(status, snapshot, hostName) ==
    [status EXCEPT
        !.Phase = "Created",
        !.PowerState = snapshot.Runtime.PowerState,
        !.UniqueID = "vm-moref-1",
        !.BiosUUID = snapshot.Summary.Config.Uuid,
        !.InstanceUUID = snapshot.Summary.Config.InstanceUuid,
        !.Host = IF snapshot.Runtime.Host # Nil /\ hostName # Nil
                 THEN Deref(hostName) ELSE "",
        !.VmIp = IF snapshot.Guest # Nil THEN Deref(snapshot.Guest).IpAddress ELSE "",
        !.NetworkInterfaces =
            IF snapshot.Guest # Nil
            THEN [i \in 1..Len(Deref(snapshot.Guest).Net) |->
                     nicInfoToNetworkIfStatus(Deref(snapshot.Guest).Net[i])]
            ELSE <<>>,
        !.ChangeBlockTracking = IF snapshot.Config # Nil
                                THEN Deref(snapshot.Config).ChangeTrackingEnabled
                                ELSE Nil]

\* Lines 890-924: the status after projection of snapshot; hostName is the
\* looked-up name, Nil when the lookup failed.
ProjectStatus(status, snapshot, hostName) ==
    [status EXCEPT
        !.Phase = "Created",
        !.PowerState = snapshot.Runtime.PowerState,
        !.UniqueID = "vm-moref-1",
        !.BiosUUID = snapshot.Summary.Config.Uuid,
        !.InstanceUUID = snapshot.Summary.Config.InstanceUuid,
        !.Host = IF snapshot.Runtime.Host # Nil
                 THEN IF hostName = Nil THEN @ ELSE Deref(hostName)
                 ELSE "",
        !.VmIp = IF snapshot.Guest # Nil THEN Deref(snapshot.Guest).IpAddress ELSE "",
        !.NetworkInterfaces =
            IF snapshot.Guest # Nil
            THEN [i \in 1..Len(Deref(snapshot.Guest).Net) |->
                     nicInfoToNetworkIfStatus(Deref(snapshot.Guest).Net[i])]
            ELSE <<>>,
        !.ChangeBlockTracking = IF snapshot.Config # Nil
                                THEN Deref(snapshot.Config).ChangeTrackingEnabled
                                ELSE Nil]

\* Lines 874-931 and 991-993.
UpdateVMStatus ==
    /\ pc = "updateVMStatus"
    /\ \E getOk \in BOOLEAN :
          IF ~getOk
          THEN /\ calls' = Append(calls, Call("GetProperties", "status", FALSE))
               /\ UNCHANGED vm
               /\ Return(Err("GetProperties failed"))
          ELSE \E lookupOk \in (IF hv.Runtime.Host # Nil THEN BOOLEAN ELSE {TRUE}) :
                  LET hostName == IF lookupOk /\ hv.Runtime.Host # Nil
                                  THEN Ptr("esx-1.example") ELSE Nil
                  IN  /\ calls' = Append(calls, Call("updateVMStatus", "", lookupOk))
                      /\ vm' = [vm EXCEPT !.Status = ProjectStatus(@, hv, hostName)]
                      /\ IF lookupOk THEN Goto("attachTagsAndModules")
                         ELSE Return(Err("host name lookup failed"))
    /\ UNCHANGED <<hv, vmConfigArgs, session, env, moVM, local, pass, prev, matchVars>>

\* A faulty variant of ModuleUuid that falls back on the module name when
\* the policy has no such module; C23 must tell it from the real one.
ModuleUuid_NameAsUuid(clusterModules, clusterModuleName) ==
    LET hits == {i \in 1..Len(clusterModules) :
                    clusterModules[i].GroupName = clusterModuleName}
    IN  IF hits = {} THEN clusterModuleName
        ELSE clusterModules[CHOOSE i \in hits : \A j \in hits : i <= j].ModuleUuid

\* Lines 823-833: the module's UUID, "" when the policy has no such module.
ModuleUuid(clusterModules, clusterModuleName) ==
    LET hits == {i \in 1..Len(clusterModules) :
                    clusterModules[i].GroupName = clusterModuleName}
    IN  IF hits = {} THEN ""
        ELSE clusterModules[CHOOSE i \in hits : \A j \in hits : i <= j].ModuleUuid

\* Lines 810-855 and 996-1000.
AttachTagsAndModules ==
    /\ pc = "attachTagsAndModules"
    /\ LET clusterModuleName == vm.Annotations.ClusterModuleName
           providerTagsName == vm.Annotations.ProviderTags
           moduleUuid == ModuleUuid(vmConfigArgs.ResourcePolicy.Status.ClusterModules,
                                    clusterModuleName)
       IN  IF clusterModuleName = "" \/ providerTagsName = ""
           THEN /\ Return(Ok)
                /\ UNCHANGED <<calls, env>>
           ELSE IF moduleUuid = ""
           THEN /\ Return(Err("ClusterModule not found"))
                /\ UNCHANGED <<calls, env>>
           ELSE \E outcome \in {"IsMemberFailed", "AddMemberFailed", "AttachTagFailed", "ok"} :
                   LET isMember == moduleUuid \in env.members
                       log1 == <<Call("IsVmMemberOfClusterModule", moduleUuid,
                                      outcome # "IsMemberFailed")>>
                       log2 == IF outcome # "IsMemberFailed" /\ ~isMember
                               THEN <<Call("AddVmToClusterModule", moduleUuid,
                                           outcome # "AddMemberFailed")>>
                               ELSE <<>>
                       added == outcome \notin {"IsMemberFailed", "AddMemberFailed"}
                       log3 == IF added /\ (isMember \/ outcome # "AddMemberFailed")
                               THEN <<Call("AttachTagToVm", providerTagsName,
                                           outcome # "AttachTagFailed")>>
                               ELSE <<>>
                   IN  /\ outcome = "AddMemberFailed" => ~isMember
                       /\ calls' = calls \o log1 \o log2 \o log3
                       /\ env' = IF added THEN [env EXCEPT !.members = @ \cup {moduleUuid}]
                                 ELSE env
                       /\ IF outcome = "ok" THEN Return(Ok)
                          ELSE Return(Err(outcome))
    /\ UNCHANGED <<hv, vm, vmConfigArgs, session, moVM, local, pass, prev, matchVars>>

Next ==
    \/ Begin
    \/ SetPowerStateOff
    \/ EnsureNetworkInterfaces
    \/ GetNameservers
    \/ PrePowerOnVMReconfigure
    \/ CustomizeVM
    \/ EnsureCNSVolumes
    \/ SetPowerStateOn
    \/ PoweredOnVMReconfigure
    \/ InvokeFsrVirtualMachine
    \/ UpdateVMStatus
    \/ AttachTagsAndModules

Spec == Init /\ [][Next]_vars

---------------------------------------------------------------------------
(* SpecBuild: the config spec builder, updateConfigSpec, over bounded      *)
(* current configs and desired classes, metadata and tables.               *)

PtrsOf(S) == {Nil} \cup {Ptr(v) : v \in S}

\* Current allocations over the values S: none, or any reservation and limit.
AllocCases(S) ==
    {Nil} \cup {Ptr([Reservation |-> r, Limit |-> l]) : r \in PtrsOf(S), l \in PtrsOf(S)}

MapsOver(keys, values) == UNION {[ks -> values] : ks \in SUBSET keys}

BuildClass(cpus, memory, devices, cpuReq, cpuLim, memReq, memLim) ==
    [Hardware |-> [Cpus |-> cpus, Memory |-> memory, Devices |-> devices],
     Policies |-> [Resources |->
                      [Requests |-> [Cpu |-> cpuReq, Memory |-> memReq],
                       Limits |-> [Cpu |-> cpuLim, Memory |-> memLim]]]]

NoDevices == [VGPUDevices |-> <<>>, DynamicDirectPathIODevices |-> <<>>]

BuildVM(cbt, mmio) ==
    [VirtualMachine(PoweredOn, cbt, "", [vifs |-> <<>>], [Volumes |-> <<>>, Status |-> <<>>])
        EXCEPT !.Annotations.PCIPassthruMMIOOverride = mmio]

BaseConfig == ConfigInfo(Nil, EmptyMap, <<>>)

BuildStart(vmObj, args, sess, config) ==
    /\ matchIn = Nil /\ matchOut = Nil
    /\ pc = "build" /\ local = NoLocal /\ calls = <<>>
    /\ result = NoResult /\ pass = 0 /\ prev = NoPrev
    /\ env = [members |-> {}]
    /\ vm = vmObj
    /\ vmConfigArgs = args
    /\ session = sess
    /\ hv = HvVM(PoweredOff, Ptr(config))
    /\ moVM = Ptr([Runtime |-> hv.Runtime, Config |-> hv.Config])

\* CPU and memory allocation against the class's requests and limits.
InitBuildAllocation ==
    \E cpuCur \in AllocCases({1, 2}), memCur \in AllocCases({1, 2}),
       cpuReq \in {0, 500, 1001}, cpuLim \in {0, 500, 1001}, freq \in {1, 3},
       memReq \in {0, 1, 4}, memLim \in {0, 1, 4} :
       BuildStart(BuildVM(Nil, ""),
                  ConfigArgs(BuildClass(2, 4, NoDevices, cpuReq, cpuLim, memReq, memLim)),
                  [TheSession EXCEPT !.cpuMinMHzInCluster = freq],
                  [BaseConfig EXCEPT !.CpuAllocation = cpuCur,
                                     !.MemoryAllocation = memCur])

GlobalTables ==
    {EmptyMap,
     [k \in {"disk.enableUUID"} |-> "TRUE"],
     [k \in {"disk.enableUUID", VMOperatorV1Alpha1ExtraConfigKey} |->
         IF k = "disk.enableUUID" THEN "{{" ELSE "{{.ImageName}}"],
     [k \in {GuestInfoUserdataKey} |-> "{{.NoSuchField}}"]}

MetadataCases ==
    {Nil,
     Ptr([Transport |-> "ExtraConfig",
          Data |-> [k \in {GuestInfoUserdataKey, "hostname"} |-> "payload"]]),
     Ptr([Transport |-> "OvfEnv",
          Data |-> [k \in {GuestInfoUserdataKey, "hostname"} |-> "payload"]])}

DeviceCases ==
    {NoDevices,
     [VGPUDevices |-> <<[ProfileName |-> "profileA"]>>,
      DynamicDirectPathIODevices |-> <<>>],
     [VGPUDevices |-> <<>>,
      DynamicDirectPathIODevices |->
          <<[VendorID |-> 4318, DeviceID |-> 7864, CustomLabel |-> "label-1"]>>]}

\* Current extra-config: any of the keys the builder may write, already set.
CurrentExtraConfigs ==
    {MapOverlay(m, c) :
        m \in MapsOver({"disk.enableUUID", GuestInfoUserdataKey,
                        PCIPassthruMMIOSizeExtraConfigKey}, {"guest-set"}),
        c \in MapsOver({VMOperatorV1Alpha1ExtraConfigKey},
                       {VMOperatorV1Alpha1ConfigReady, VMOperatorV1Alpha1ConfigEnabled})}

\* The extra-config table, metadata and MMIO keys against the current extra-config.
InitBuildExtraConfig ==
    \E table \in GlobalTables, metadata \in MetadataCases, devices \in DeviceCases,
       mmio \in {"", "0", "1024"}, fss \in BOOLEAN, compatible \in BOOLEAN,
       current \in CurrentExtraConfigs :
       BuildStart(BuildVM(Nil, mmio),
                  [ConfigArgs(BuildClass(2, 4, devices, 0, 0, 0, 0)) EXCEPT
                      !.VmImage.V1Alpha1Compatible = compatible,
                      !.VmMetadata = metadata],
                  [TheSession EXCEPT !.extraConfig = table, !.fssThunderPci = fss],
                  [BaseConfig EXCEPT !.ExtraConfig = current])

\* Hardware, vApp properties and change-block-tracking.
InitBuildHardware ==
    \E annotation \in {VCVMAnnotation, ""}, managedBy \in {Nil, Ptr(ManagedByWcp)},
       cpus \in {0, 2, 4}, memory \in {3, 4, 6},
       vapp \in {Nil, Ptr([Property |-> [k \in {"hostname"} |-> "old"]])},
       metadata \in MetadataCases, cbtCur \in TriState, cbt \in TriState :
       BuildStart(BuildVM(cbt, ""),
                  [ConfigArgs(BuildClass(cpus, memory, NoDevices, 0, 0, 0, 0)) EXCEPT
                      !.VmMetadata = metadata],
                  TheSession,
                  [BaseConfig EXCEPT !.Annotation = annotation, !.ManagedBy = managedBy,
                                     !.VAppConfig = vapp,
                                     !.ChangeTrackingEnabled = cbtCur])

\* Desired interfaces and class devices against current adapters and
\* passthrough devices, for the device changes of prePowerOnVMConfigSpec.
InitBuildDevices ==
    \E vifs \in SeqsUpTo({v \in VifUniverse : v.AddressType = "generated" /\
                              v.Backing \in {NetworkBacking("net-a"),
                                             NetworkBacking("net-b")}}, MaxDevs),
       cards \in SeqsUpTo({c \in CurEthUniverse : c.Backing = NetworkBacking("net-a")},
                          MaxDevs),
       vgpus \in SeqsUpTo({[ProfileName |-> "profileA"]}, MaxDevs),
       backings \in SeqsUpTo({VmiopBacking("profileA"), VmiopBacking("profileB")},
                             MaxDevs),
       fss \in BOOLEAN :
       LET devices == HvEthCards(cards) \o HvPciDevices(backings)
           config == ConfigInfo(Nil, EmptyMap, devices)
           class == BuildClass(2, 4, [VGPUDevices |-> vgpus,
                                      DynamicDirectPathIODevices |-> <<>>], 0, 0, 0, 0)
       IN  /\ matchIn = Nil /\ matchOut = Nil
           /\ pc = "buildPrePowerOn" /\ calls = <<>>
           /\ local = [NoLocal EXCEPT !.NetIfList = ResolvedNetIfList(vifs, config)]
           /\ result = NoResult /\ pass = 0 /\ prev = NoPrev
           /\ env = [members |-> {}]
           /\ vm = BuildVM(Nil, "")
           /\ vmConfigArgs = ConfigArgs(class)
           /\ session = [TheSession EXCEPT !.fssThunderPci = fss]
           /\ hv = HvVM(PoweredOff, Ptr(config))
           /\ moVM = Ptr([Runtime |-> hv.Runtime, Config |-> hv.Config])

InitBuild ==
    InitBuildAllocation \/ InitBuildExtraConfig \/ InitBuildHardware \/ InitBuildDevices

\* Lines 513-532, as prePowerOnVMConfigSpec calls it.
BuildConfigSpec ==
    /\ pc = "build"
    /\ local' = [local EXCEPT !.configSpec =
          Ptr(updateConfigSpec(vm, Config, vmConfigArgs.VmImage, vmConfigArgs.VmClass.Spec,
                               vmConfigArgs.VmMetadata, session.extraConfig,
                               session.cpuMinMHzInCluster, session.fssThunderPci))]
    /\ pc' = "built"
    /\ UNCHANGED <<hv, vm, vmConfigArgs, session, env, moVM, calls, result, pass, prev,
                   matchVars>>

\* Lines 534-578: the whole pre-power-on delta, device changes included.
BuildPrePowerOnConfigSpec ==
    /\ pc = "buildPrePowerOn"
    /\ local' = [local EXCEPT !.configSpec =
          Ptr(prePowerOnVMConfigSpec(vm, Config, UpdateArgs, session))]
    /\ pc' = "builtPrePowerOn"
    /\ UNCHANGED <<hv, vm, vmConfigArgs, session, env, moVM, calls, result, pass, prev,
                   matchVars>>

NextBuild == BuildConfigSpec \/ BuildPrePowerOnConfigSpec

SpecBuild == InitBuild /\ [][NextBuild]_vars

---------------------------------------------------------------------------
(* Claims about the config spec builder (SpecBuild). *)

Built == pc = "built"

Delta == Deref(local.configSpec)

\* C8 as stated: extra-config append-only.  The extra-config of the built
\* delta has no entry for a key the current extra-config already holds.
C8_ExtraConfigAppendOnly ==
    Built => DOMAIN Delta.ExtraConfig \cap DOMAIN Config.ExtraConfig = {}

\* C8 amended: the extra-config of the built delta has no entry for a key the
\* current extra-config already holds, except the legacy compatibility key
\* VMOperatorV1Alpha1ExtraConfigKey, which is written (as "enabled") exactly
\* when the image is v1alpha1-compatible and the key's current value is "ready".
C8_ExtraConfigAppendOnlyButCompat ==
    Built =>
        LET both == DOMAIN Delta.ExtraConfig \cap DOMAIN Config.ExtraConfig
            ready == /\ VMOperatorV1Alpha1ExtraConfigKey \in DOMAIN Config.ExtraConfig
                     /\ Config.ExtraConfig[VMOperatorV1Alpha1ExtraConfigKey] =
                            VMOperatorV1Alpha1ConfigReady
        IN  /\ both \subseteq {VMOperatorV1Alpha1ExtraConfigKey}
            /\ (VMOperatorV1Alpha1ExtraConfigKey \in both) <=>
                   (vmConfigArgs.VmImage.V1Alpha1Compatible /\ ready)
            /\ VMOperatorV1Alpha1ExtraConfigKey \in both =>
                   Delta.ExtraConfig[VMOperatorV1Alpha1ExtraConfigKey] =
                       VMOperatorV1Alpha1ConfigEnabled

\* C8 witness: the table holds a key the guest has already set to another
\* value; the delta writes another key and leaves that one alone.
C8_Witness ==
    /\ Built
    /\ "disk.enableUUID" \in DOMAIN session.extraConfig
    /\ "disk.enableUUID" \in DOMAIN Config.ExtraConfig
    /\ Config.ExtraConfig["disk.enableUUID"] # session.extraConfig["disk.enableUUID"]
    /\ "disk.enableUUID" \notin DOMAIN Delta.ExtraConfig
    /\ DOMAIN Delta.ExtraConfig # {}

\* The reservation or limit of a delta allocation, Nil when the allocation is absent.
DeltaField(allocation, field) ==
    IF allocation = Nil THEN Nil
    ELSE IF field = "Reservation" THEN Deref(allocation).Reservation
    ELSE Deref(allocation).Limit

\* desired: the class's quantity; converted: its value in the hypervisor's
\* unit; written: what the delta carries; current: the current allocation.
AllocationFieldOk(desired, converted, written, current, field) ==
    /\ desired = 0 => written = Nil
    /\ written # Nil =>
          /\ desired # 0
          /\ Deref(written) = converted
          /\ Deref(written) # 0
          /\ DeltaField(current, field) = Nil \/ Deref(DeltaField(current, field)) # converted

\* C9: allocation never downgraded on absence.  For CPU and memory, a zero
\* request (limit) leaves the reservation (limit) out of the delta whatever the
\* current allocation is; one is written only for a nonzero desired value that
\* the current allocation lacks or differs from, and it is never zero.
C9_AllocationNeverDowngrade ==
    Built =>
        LET res == vmConfigArgs.VmClass.Spec.Policies.Resources
            freq == session.cpuMinMHzInCluster
        IN  /\ AllocationFieldOk(res.Requests.Cpu, CpuQuantityToMhz(res.Requests.Cpu, freq),
                   DeltaField(Delta.CpuAllocation, "Reservation"),
                   Config.CpuAllocation, "Reservation")
            /\ AllocationFieldOk(res.Limits.Cpu, CpuQuantityToMhz(res.Limits.Cpu, freq),
                   DeltaField(Delta.CpuAllocation, "Limit"),
                   Config.CpuAllocation, "Limit")
            /\ AllocationFieldOk(res.Requests.Memory,
                   memoryQuantityToMb(res.Requests.Memory),
                   DeltaField(Delta.MemoryAllocation, "Reservation"),
                   Config.MemoryAllocation, "Reservation")
            /\ AllocationFieldOk(res.Limits.Memory, memoryQuantityToMb(res.Limits.Memory),
                   DeltaField(Delta.MemoryAllocation, "Limit"),
                   Config.MemoryAllocation, "Limit")

\* C9 witness: no CPU limit is desired, the hypervisor holds one, and the delta
\* writes a CPU reservation while leaving the limit out.
C9_Witness ==
    /\ Built
    /\ vmConfigArgs.VmClass.Spec.Policies.Resources.Limits.Cpu = 0
    /\ DeltaField(Config.CpuAllocation, "Limit") # Nil
    /\ DeltaField(Delta.CpuAllocation, "Reservation") # Nil
    /\ DeltaField(Delta.CpuAllocation, "Limit") = Nil

---------------------------------------------------------------------------
(* Claims about Converge passes (Spec). *)

PassDone == pc = "done"

Fetched == pc # "ready" /\ moVM # Nil

Desired == vm.Spec.PowerState

StartPower == Deref(moVM).Runtime.PowerState

HasConfig == Deref(moVM).Config # Nil

CallIdx(ops) == {i \in 1..Len(calls) : calls[i].op \in ops}

PowerIdx(powerState) ==
    {i \in CallIdx({"SetPowerState"}) : calls[i].arg = powerState}

\* The delta of this pass, when one has been built, is the zero-value delta.
NoDeltaOrZero == local.configSpec # Nil => Deref(local.configSpec) = ZeroConfigSpec

StepRank(c) ==
    CASE c.op = "EnsureNetworkInterface" -> 1
      [] c.op = "GetNameservers" -> 2
      [] c.op = "Reconfigure" -> 3
      [] c.op = "Customize" -> 4
      [] c.op = "ensureCNSVolumes" -> 5
      [] c.op = "SetPowerState" -> 6
      [] OTHER -> 7

\* The customization gate, read off the desired spec and the snapshot.
GateAllows ==
    /\ vm.Annotations.VSphereCustomizationBypass # "disable"
    /\ \/ GOSCPendingExtraConfigKey \notin DOMAIN Config.ExtraConfig
       \/ Config.ExtraConfig[GOSCPendingExtraConfigKey] = ""

\* C2: pre-power-on ordering.  In a pass with desired=On on a powered-off VM
\* the calls come in the order network-interface ensure, Reconfigure (only for
\* a non-zero delta), Customize (only when the gate allows it), volume check,
\* SetPowerState(On), each of the last four at most once; SetPowerState(On) is
\* issued only after every interface was ensured, the non-zero delta was
\* applied, the customization step succeeded (the call succeeded or hit the
\* pending fault) and the volume check passed.
C2_PrePowerOnOrdering ==
    (Fetched /\ Desired = PoweredOn /\ StartPower = PoweredOff) =>
        /\ \A i, j \in 1..Len(calls) : i < j => StepRank(calls[i]) <= StepRank(calls[j])
        /\ \A op \in {"Reconfigure", "Customize", "ensureCNSVolumes", "SetPowerState"} :
              Cardinality(CallIdx({op})) <= 1
        /\ PowerIdx(PoweredOff) = {}
        /\ CallIdx({"Reconfigure"}) # {} =>
              (local.configSpec # Nil /\ Deref(local.configSpec) # ZeroConfigSpec)
        /\ CallIdx({"Customize"}) # {} => GateAllows
        /\ PowerIdx(PoweredOn) # {} =>
              /\ Cardinality(CallIdx({"EnsureNetworkInterface"})) =
                     Len(vm.Spec.NetworkInterfaces)
              /\ \A i \in CallIdx({"EnsureNetworkInterface", "Reconfigure",
                                   "ensureCNSVolumes"}) : calls[i].ok
              /\ local.configSpec # Nil
              /\ Deref(local.configSpec) # ZeroConfigSpec => CallIdx({"Reconfigure"}) # {}
              /\ GateAllows => CallIdx({"Customize"}) # {}
              /\ \A i \in CallIdx({"Customize"}) :
                    calls[i].arg \in {"ok", "CustomizationPending"}
              /\ CallIdx({"ensureCNSVolumes"}) # {}

\* C2 witness: a pass that ensured an interface, reconfigured, customized,
\* checked the volumes and powered the VM on.
C2_Witness ==
    /\ PassDone /\ Fetched /\ Desired = PoweredOn /\ StartPower = PoweredOff
    /\ result.kind = "ok"
    /\ \A op \in {"EnsureNetworkInterface", "Reconfigure", "Customize",
                  "ensureCNSVolumes"} : CallIdx({op}) # {}
    /\ PowerIdx(PoweredOn) # {}

\* C3: desired=Off.  A finished pass with desired=Off has issued
\* SetPowerState(Off) if the VM was on and no power call if it was off, and in
\* neither case a Reconfigure or a Customize.
C3_DesiredOff ==
    (PassDone /\ Fetched /\ Desired = PoweredOff) =>
        /\ StartPower = PoweredOn =>
              (Cardinality(PowerIdx(PoweredOff)) = 1 /\ PowerIdx(PoweredOn) = {})
        /\ StartPower = PoweredOff => CallIdx({"SetPowerState"}) = {}
        /\ CallIdx({"Reconfigure", "Customize"}) = {}

\* Some claimed volume of the desired spec has no status, or a status that
\* says it is not attached.
ClaimedVolumeNotReady ==
    \E i \in 1..Len(vm.Spec.Volumes) :
        /\ vm.Spec.Volumes[i].PersistentVolumeClaim # Nil
        /\ \/ \A j \in 1..Len(vm.Status.Volumes) :
                 vm.Status.Volumes[j].Name # vm.Spec.Volumes[i].Name
           \/ \E j \in 1..Len(vm.Status.Volumes) :
                 /\ vm.Status.Volumes[j].Name = vm.Spec.Volumes[i].Name
                 /\ ~vm.Status.Volumes[j].Attached

\* The pass runs the pre-power-on sequence.
PrePowerOnPass == Fetched /\ Desired = PoweredOn /\ StartPower = PoweredOff /\ HasConfig

\* C4: volume gate.  A finished pre-power-on pass with a claimed volume that
\* is unattached or has no status returned an error and did not issue
\* SetPowerState(On); when the volume check is what failed, the error names
\* the unattached volume if the volume has a status and says the status is
\* pending if it has none; with every claimed volume attached the check
\* passes, whatever volumes without a claim the spec holds.
C4_VolumeGate ==
    (PassDone /\ PrePowerOnPass) =>
        /\ ClaimedVolumeNotReady => (result.kind = "error" /\ PowerIdx(PoweredOn) = {})
        /\ \A i \in CallIdx({"ensureCNSVolumes"}) :
              /\ calls[i].ok <=> ~ClaimedVolumeNotReady
              /\ ~calls[i].ok =>
                    /\ result = Err(calls[i].arg)
                    /\ calls[i].arg =
                          IF \E k \in 1..Len(vm.Spec.Volumes),
                                j \in 1..Len(vm.Status.Volumes) :
                                /\ vm.Spec.Volumes[k].PersistentVolumeClaim # Nil
                                /\ vm.Status.Volumes[j].Name = vm.Spec.Volumes[k].Name
                          THEN "Persistent volume not attached to VM"
                          ELSE "Status update pending for persistent volume"

\* C4 witness: the volume check stopped a pass whose earlier steps succeeded,
\* for a volume without status.
C4_Witness ==
    /\ PassDone /\ PrePowerOnPass
    /\ \E i \in CallIdx({"ensureCNSVolumes"}) :
          calls[i].arg = "Status update pending for persistent volume"
    /\ result.kind = "error"
    /\ PowerIdx(PoweredOn) = {}

DesiredCbt ==
    IF vm.Spec.AdvancedOptions = Nil THEN Nil
    ELSE Deref(vm.Spec.AdvancedOptions).ChangeBlockTracking

\* C5: live change-tracking toggle.  A finished pass with desired=On on a
\* powered-on VM issues exactly one Reconfigure when the desired tracking flag
\* is set and differs from the current one, followed, if it succeeded, by
\* exactly one checkpoint-restore; with the flag not toggled it issues neither.
C5_LiveTrackingToggle ==
    (PassDone /\ Fetched /\ Desired = PoweredOn /\ StartPower = PoweredOn /\ HasConfig) =>
        LET toggled == DesiredCbt # Nil /\ DesiredCbt # Config.ChangeTrackingEnabled
            rec == CallIdx({"Reconfigure"})
            fsr == CallIdx({"InvokeFsr"})
        IN  IF toggled
            THEN /\ Cardinality(rec) = 1
                 /\ \A i \in rec :
                       IF calls[i].ok
                       THEN Cardinality(fsr) = 1 /\ \A j \in fsr : j = i + 1
                       ELSE fsr = {}
            ELSE rec = {} /\ fsr = {}

\* C5 witness: tracking toggled on a powered-on VM; Reconfigure, then the
\* checkpoint-restore, both succeeded.
C5_Witness ==
    /\ PassDone /\ Fetched /\ Desired = PoweredOn /\ StartPower = PoweredOn /\ HasConfig
    /\ DesiredCbt = Ptr(TRUE) /\ Config.ChangeTrackingEnabled = Ptr(FALSE)
    /\ \E i \in CallIdx({"InvokeFsr"}) : calls[i].ok
    /\ result.kind = "ok"

\* C10: config unavailable.  A finished pass whose snapshot reports no config
\* returned an error, whatever the desired power state, and issued no
\* hypervisor write call.
C10_ConfigUnavailable ==
    (PassDone /\ Fetched /\ ~HasConfig) =>
        (result.kind = "error" /\ CountCalls(calls, WriteOps) = 0)

\* The calls of this pass that are hard failures: a Reconfigure, SetPowerState
\* or checkpoint-restore call that failed, or a Customize call that failed
\* with another error than the pending fault.
HardFailures ==
    {i \in 1..Len(calls) :
        \/ calls[i].op \in {"Reconfigure", "SetPowerState", "InvokeFsr"} /\ ~calls[i].ok
        \/ calls[i].op = "Customize" /\ calls[i].arg \notin {"ok", "CustomizationPending"}}

\* The calls of status projection and of affinity attachment.
StatusOps == {"GetProperties", "updateVMStatus"}

AffinityOps == {"IsVmMemberOfClusterModule", "AddVmToClusterModule", "AttachTagToVm"}

\* C11: hard-failure abort.  Once a Reconfigure, Customize (other than with
\* the pending fault), SetPowerState or checkpoint-restore call has failed,
\* the pass has returned that call's error, and the failed call is the last
\* call of the pass: no hypervisor write, no status projection and no affinity
\* call follows it.
C11_HardFailureAbort ==
    \A i \in HardFailures :
        /\ pc = "done"
        /\ result = Err(CASE calls[i].op = "Customize" -> "Customize failed"
                          [] calls[i].op = "Reconfigure" -> "Reconfigure failed"
                          [] calls[i].op = "SetPowerState" -> "SetPowerState failed"
                          [] calls[i].op = "InvokeFsr" -> "InvokeFsr failed")
        /\ i = Len(calls)
        /\ CallIdx(StatusOps \cup AffinityOps) = {}

\* C11 witness: the checkpoint-restore failed after a successful Reconfigure
\* and the pass returned.
C11_Witness ==
    /\ PassDone
    /\ \E i \in HardFailures : calls[i].op = "InvokeFsr"
    /\ \E i \in CallIdx({"Reconfigure"}) : calls[i].ok

\* The DNS-server lookup of this pass failed.
DnsLookupFailed == \E i \in CallIdx({"GetNameservers"}) : ~calls[i].ok

\* The pre-power-on steps after the DNS lookup left nothing undone: whatever
\* of Reconfigure, Customize and the volume check was called did not fail hard.
LaterStepsSucceeded ==
    /\ HardFailures \subseteq PowerIdx(PoweredOn)
    /\ \A i \in CallIdx({"ensureCNSVolumes"}) : calls[i].ok

\* C12: a failed DNS lookup is not fatal.  The step that makes the failed
\* lookup leaves the pass where a successful lookup that returned no server
\* would leave it: at the pre-power-on Reconfigure, with an empty DNS list and
\* nothing returned.  A pre-power-on pass whose lookup failed never returns
\* the lookup's error: it ends in the error of a later step or it reaches
\* SetPowerState(On) after the delta decision, the customization gate and the
\* volume check.
C12_DnsLookupNonFatal ==
    /\ [][(pc = "GetNameservers" /\ DnsLookupFailed') =>
             /\ pc' = "prePowerOnVMReconfigure"
             /\ result' = result
             /\ local' = [local EXCEPT !.DNSServers = <<>>]
             /\ vmConfigArgs' = IF session.fssV1Alpha2
                                THEN updateVmConfigArgsTemplates(vmConfigArgs,
                                         local.NetIfList, <<>>)
                                ELSE vmConfigArgs
             /\ UNCHANGED <<hv, vm, moVM>>]_vars
    /\ [](DnsLookupFailed =>
             /\ PrePowerOnPass
             /\ local.DNSServers = <<>>
             /\ pc # "GetNameservers"
             /\ PassDone =>
                   /\ CallIdx({"ensureCNSVolumes"}) # {} \/ HardFailures # {}
                   /\ LaterStepsSucceeded <=> PowerIdx(PoweredOn) # {}
                   /\ (CallIdx({"Reconfigure"}) # {} \/ CallIdx({"Customize", "ensureCNSVolumes"}) # {}) =>
                         (CallIdx({"Reconfigure"}) # {} <=> ~NoDeltaOrZero)
                   /\ CallIdx({"Customize", "ensureCNSVolumes"}) # {} =>
                         (CallIdx({"Customize"}) # {} <=> GateAllows))

\* C12 witness: the lookup failed and the pass went on to power the VM on and
\* returned without error.
C12_Witness ==
    /\ PassDone /\ DnsLookupFailed
    /\ CallIdx({"Reconfigure"}) # {}
    /\ PowerIdx(PoweredOn) # {}
    /\ result.kind = "ok"

\* The host-name lookup of this pass's status projection failed.
HostLookupFailed == \E i \in CallIdx({"updateVMStatus"}) : ~calls[i].ok

\* The status fields that follow the host name in the projection hold what
\* the hypervisor reports: guest address, one status per guest adapter,
\* change tracking.
RemainingFieldsProjected ==
    /\ vm.Status.VmIp = IF hv.Guest = Nil THEN "" ELSE Deref(hv.Guest).IpAddress
    /\ Len(vm.Status.NetworkInterfaces) =
           IF hv.Guest = Nil THEN 0 ELSE Len(Deref(hv.Guest).Net)
    /\ \A i \in 1..Len(vm.Status.NetworkInterfaces) :
          /\ vm.Status.NetworkInterfaces[i].MacAddress = Deref(hv.Guest).Net[i].MacAddress
          /\ vm.Status.NetworkInterfaces[i].Connected = Deref(hv.Guest).Net[i].Connected
          /\ Len(vm.Status.NetworkInterfaces[i].IpAddresses) =
                 Len(Deref(hv.Guest).Net[i].IpConfig.IpAddress)
    /\ vm.Status.ChangeBlockTracking =
           IF hv.Config = Nil THEN Nil ELSE Deref(hv.Config).ChangeTrackingEnabled

\* C13 as stated: a failed host-name lookup never aborts the pass.  The
\* remaining status fields are projected and the step that makes the failed
\* lookup hands the pass to the affinity attachment.
C13_HostLookupNeverAborts ==
    /\ [](HostLookupFailed => RemainingFieldsProjected)
    /\ [][(pc = "updateVMStatus" /\ HostLookupFailed') =>
             pc' = "attachTagsAndModules"]_vars

\* C13 amended: a failed host-name lookup does not stop the projection but
\* ends the pass.  The remaining status fields are projected, the pass has
\* returned the lookup's error, the projection is its last call and no
\* affinity call was made.
C13_HostLookupProjectsThenReturns ==
    HostLookupFailed =>
        /\ RemainingFieldsProjected
        /\ PassDone
        /\ result = Err("host name lookup failed")
        /\ calls[Len(calls)].op = "updateVMStatus"
        /\ CallIdx(AffinityOps) = {}

\* C13 witness: the lookup failed for a VM whose guest reports an address and
\* whose affinity annotations name a known module; the address was projected.
C13_Witness ==
    /\ HostLookupFailed
    /\ hv.Guest # Nil
    /\ vm.Status.VmIp = Deref(hv.Guest).IpAddress
    /\ Len(vm.Status.NetworkInterfaces) = 1
    /\ vm.Annotations.ClusterModuleName # ""
    /\ vmConfigArgs.ResourcePolicy.Status.ClusterModules # <<>>

\* A step of this pass that comes before status projection returned an error.
EarlierStepFailed ==
    \/ moVM = Nil
    \/ HardFailures # {}
    \/ \E i \in CallIdx({"EnsureNetworkInterface", "ensureCNSVolumes"}) : ~calls[i].ok

\* The status holds the phase Created and the power state the hypervisor
\* reports.
StatusFresh ==
    /\ vm.Status.Phase = "Created"
    /\ vm.Status.PowerState = hv.Runtime.PowerState

GatePassed ==
    /\ PrePowerOnPass
    /\ pc \notin {"ensureNetworkInterfaces", "GetNameservers",
                  "prePowerOnVMReconfigure", "customizeVM"}
    /\ \A i \in CallIdx({"EnsureNetworkInterface", "Reconfigure"}) : calls[i].ok

VolumeCheckStarted == pc = "ensureCNSVolumes" \/ CallIdx({"ensureCNSVolumes"}) # {}

PowerOnStarted == pc = "SetPowerStateOn" \/ PowerIdx(PoweredOn) # {}

\* C15: customization gate.  In a pre-power-on pass with the bypass annotation
\* set to disable, or with a non-empty pending key in the snapshot's
\* extra-config, no Customize call is issued and the pass goes on to the
\* volume check and, when that passes, to power-on; otherwise exactly one
\* Customize call is issued once the pass is past the gate, and none before.
C15_CustomizationGate ==
    PrePowerOnPass =>
        /\ ~GateAllows =>
              /\ CallIdx({"Customize"}) = {}
              /\ GatePassed =>
                    /\ VolumeCheckStarted
                    /\ (\E i \in CallIdx({"ensureCNSVolumes"}) : calls[i].ok) =>
                           PowerOnStarted
        /\ GateAllows =>
              /\ Cardinality(CallIdx({"Customize"})) = IF GatePassed THEN 1 ELSE 0

\* C15 witness: the pending key held a value, customization was not bypassed
\* by annotation, and the pass reached SetPowerState(On) with no Customize call.
C15_Witness ==
    /\ PrePowerOnPass /\ PassDone
    /\ vm.Annotations.VSphereCustomizationBypass # VSphereCustomizationBypassDisable
    /\ isCustomizationPendingExtraConfig(Config.ExtraConfig)
    /\ CallIdx({"Customize"}) = {}
    /\ PowerIdx(PoweredOn) # {}

\* C16: customization race tolerance.  A Customize call that fails with the
\* customization-pending fault counts as success: the pass goes on to the
\* volume check and, when that passes, to SetPowerState(On).  A Customize call
\* that fails with any other error ends the pass with that error, with neither
\* a volume check nor SetPowerState(On).
C16_CustomizationRaceTolerance ==
    \A i \in CallIdx({"Customize"}) :
        /\ calls[i].arg = "CustomizationPending" =>
              /\ VolumeCheckStarted
              /\ ~(PassDone /\ result = Err("Customize failed"))
              /\ (\E j \in CallIdx({"ensureCNSVolumes"}) : calls[j].ok) => PowerOnStarted
        /\ calls[i].arg \notin {"ok", "CustomizationPending"} =>
              /\ PassDone /\ result = Err("Customize failed")
              /\ i = Len(calls)
              /\ PowerIdx(PoweredOn) = {}

\* C16 witness: Customize failed with the pending fault and the VM was
\* powered on in the same pass.
C16_Witness ==
    /\ PassDone /\ result.kind = "ok"
    /\ \E i \in CallIdx({"Customize"}) : calls[i].arg = "CustomizationPending"
    /\ \E i \in PowerIdx(PoweredOn) : calls[i].ok /\ hv.Runtime.PowerState = PoweredOn

\* C16 witness of the other branch: Customize failed with another fault and
\* the pass returned that error.
C16_WitnessOtherError ==
    /\ PassDone /\ result = Err("Customize failed")
    /\ \E i \in CallIdx({"Customize"}) : calls[i].arg = "CustomizationFault"

\* The matchers' per-pair rule: may expected device e keep current device c?
Compatible(kind, e, c) ==
    IF kind = "eth" THEN EthBackingMatch(e, c) ELSE PciBackingMatch(e, c)

\* The pairings of expected devices with distinct current devices that respect
\* the per-pair rule.
Pairings(kind, expected, current) ==
    {p \in SUBSET ((1..Len(expected)) \X (1..Len(current))) :
        /\ \A x \in p : Compatible(kind, expected[x[1]], current[x[2]])
        /\ \A x, y \in p : (x[1] = y[1] \/ x[2] = y[2]) => x = y}

\* The fewest Adds plus Removes any pairing leaves.
MinChanges(kind, expected, current) ==
    LET sizes == {Cardinality(p) : p \in Pairings(kind, expected, current)}
        most == CHOOSE n \in sizes : \A m \in sizes : m <= n
    IN  Len(expected) + Len(current) - 2 * most

\* C17: minimal change set.  The change list a matcher returns has as few
\* entries as any pairing of expected devices with distinct current devices
\* under the matcher's per-pair rule allows.
C17_MinimalChangeSet ==
    MatchDone =>
        Len(Changes) = MinChanges(matchIn.kind, matchIn.expected, matchIn.current)

\* The device-change list of the built pre-power-on delta.
BuiltPrePowerOn == pc = "builtPrePowerOn"

DeviceChange == Deref(local.configSpec).DeviceChange

\* C18: remove-before-add across the whole delta.  In the device-change list
\* of the pre-power-on delta (disk changes, network adapter changes, then the
\* passthrough changes when the feature flag is on) every Remove entry comes
\* before every Add entry.
C18_RemoveBeforeAddWholeDelta ==
    BuiltPrePowerOn =>
        \A i, j \in 1..Len(DeviceChange) :
            (DeviceChange[i].Operation = "add" /\ DeviceChange[j].Operation = "remove")
                => j < i

\* Two devices have the same backing: the backing data are equal and, for a
\* network adapter, the current card carries the manual MAC address and the
\* external id the expected card sets.
SameBacking(kind, a, b) ==
    /\ a.Backing = b.Backing
    /\ kind = "eth" =>
          /\ a.AddressType = "manual" => a.MacAddress = b.MacAddress
          /\ a.ExternalId # "" => a.ExternalId = b.ExternalId

AllSameBacking ==
    /\ \A e \in Range(matchIn.expected), c \in Range(matchIn.current) :
          SameBacking(matchIn.kind, e, c)
    /\ \A a, b \in Range(matchIn.expected) : a.Backing = b.Backing
    /\ \A a, b \in Range(matchIn.current) : a.Backing = b.Backing

Max(a, b) == IF a >= b THEN a ELSE b

\* C19: multiset matching of identical devices.  For k expected and m current
\* devices that all have the same backing the matcher returns max(k-m, 0) Adds
\* and max(m-k, 0) Removes: none for lists of equal length, one Remove and no
\* Add for two current vGPU devices against one expected; an empty current
\* list gives one Add per expected device.
C19_MultisetMatching ==
    MatchDone =>
        LET k == Len(matchIn.expected)
            m == Len(matchIn.current)
        IN  /\ AllSameBacking =>
                  /\ CountOp(Changes, "add") = Max(k - m, 0)
                  /\ CountOp(Changes, "remove") = Max(m - k, 0)
            /\ m = 0 => CountOp(Changes, "add") = k /\ CountOp(Changes, "remove") = 0

DeltaBuilt == local.configSpec # Nil

\* C20: empty delta is a no-op.  On the pre-power-on path and on the
\* powered-on path alike, a pass issues a Reconfigure call exactly when the
\* delta it built differs from the zero-value delta, and never more than one.
C20_EmptyDeltaNoOp ==
    LET reconfigures == CallIdx({"Reconfigure"})
    IN  /\ Cardinality(reconfigures) <= 1
        /\ ~DeltaBuilt => reconfigures = {}
        /\ DeltaBuilt =>
              /\ (reconfigures # {}) <=> (Deref(local.configSpec) # ZeroConfigSpec)
              /\ \A i \in reconfigures :
                    calls[i].arg = IF StartPower = PoweredOff THEN "prePowerOn"
                                   ELSE "poweredOn"

\* C20 witness: a pre-power-on pass built the zero-value delta, issued no
\* Reconfigure call and went on to power the VM on.
C20_Witness ==
    /\ PrePowerOnPass /\ PassDone /\ result.kind = "ok"
    /\ DeltaBuilt /\ Deref(local.configSpec) = ZeroConfigSpec
    /\ CallIdx({"Reconfigure"}) = {}
    /\ \E i \in PowerIdx(PoweredOn) : calls[i].ok

\* C20 witness on the powered-on path: the delta held the tracking flag and
\* one Reconfigure call was made.
C20_WitnessPoweredOn ==
    /\ Fetched /\ StartPower = PoweredOn /\ PassDone
    /\ DeltaBuilt /\ Deref(local.configSpec) # ZeroConfigSpec
    /\ Cardinality(CallIdx({"Reconfigure"})) = 1

\* A pass with desired=On on a VM the snapshot reports as powered on.
PoweredOnPass ==
    Fetched /\ Desired = PoweredOn /\ StartPower = PoweredOn /\ HasConfig

\* The desired tracking flag is set and is not the snapshot's.
TrackingToggled == DesiredCbt # Nil /\ DesiredCbt # Config.ChangeTrackingEnabled

\* C21: the powered-on path touches only change-tracking.  With desired=On on
\* a powered-on VM the delta is non-zero exactly when the desired tracking
\* flag is set and differs from the current one (an unset current flag
\* differs from any set one), and then it holds that flag and nothing else;
\* no other difference causes a write, no other hypervisor write call is
\* made, the hypervisor's config changes in the tracking flag at most, and
\* with the desired flag unset it does not change at all.
C21_PoweredOnOnlyTracking ==
    PoweredOnPass =>
        /\ CallIdx({"Customize", "SetPowerState", "EnsureNetworkInterface"}) = {}
        /\ CallIdx({"Reconfigure"}) # {} => TrackingToggled
        /\ [Deref(hv.Config) EXCEPT !.ChangeTrackingEnabled = Nil] =
               [Config EXCEPT !.ChangeTrackingEnabled = Nil]
        /\ DesiredCbt = Nil => hv.Config = Deref(moVM).Config
        /\ DeltaBuilt =>
              /\ (Deref(local.configSpec) # ZeroConfigSpec) <=> TrackingToggled
              /\ Deref(local.configSpec) =
                     [ZeroConfigSpec EXCEPT !.ChangeTrackingEnabled =
                         IF TrackingToggled THEN DesiredCbt ELSE Nil]

\* C21 witness: the class asks for more CPUs than the powered-on VM has and
\* the desired tracking flag is unset; the pass built the zero-value delta
\* and wrote nothing.
C21_Witness ==
    /\ PoweredOnPass /\ PassDone /\ result.kind = "ok"
    /\ vmConfigArgs.VmClass.Spec.Hardware.Cpus # Config.Hardware.NumCPU
    /\ DesiredCbt = Nil /\ Config.ChangeTrackingEnabled = Ptr(TRUE)
    /\ DeltaBuilt /\ Deref(local.configSpec) = ZeroConfigSpec
    /\ CountCalls(calls, WriteOps) = 0
    /\ Deref(hv.Config).ChangeTrackingEnabled = Ptr(TRUE)

\* Status projection ran in this pass: the properties were fetched and the
\* status fields written.
Projected == CallIdx({"updateVMStatus"}) # {}

ResolvedHostName == "esx-1.example"

\* C22 as stated: host name never stale.  After status projection the status
\* host is empty when the VM has no host reference or the host-name lookup
\* failed, and it is the resolved name only when the lookup succeeded in this
\* pass.
C22_HostNeverStale ==
    Projected =>
        /\ (hv.Runtime.Host = Nil \/ HostLookupFailed) => vm.Status.Host = ""
        /\ vm.Status.Host = ResolvedHostName => ~HostLookupFailed

\* C22 amended: status projection sets the status host to the empty string
\* when the VM has no host reference and to the resolved name when the lookup
\* succeeds; when the lookup fails it leaves the status host as it was before
\* the projection.
C22_HostKeptOnLookupFailure ==
    [][(Len(calls') = Len(calls) + 1 /\ calls'[Len(calls')].op = "updateVMStatus") =>
          vm'.Status.Host =
              IF hv.Runtime.Host = Nil THEN ""
              ELSE IF calls'[Len(calls')].ok THEN ResolvedHostName
              ELSE vm.Status.Host]_vars

\* C22 witness: the lookup failed in this pass and the status still holds the
\* host name it had before the pass.
C22_Witness ==
    /\ Projected /\ HostLookupFailed
    /\ hv.Runtime.Host # Nil
    /\ vm.Status.Host = "stale-host"

\* C22 witness of the other branch: a VM without host reference was projected
\* and its status host is empty.
C22_WitnessNoHost ==
    /\ Projected /\ hv.Runtime.Host = Nil
    /\ vm.Status.Host = ""

\* The resource policy has a module of the name the VM's annotation gives.
ModuleKnown ==
    \E i \in 1..Len(vmConfigArgs.ResourcePolicy.Status.ClusterModules) :
        vmConfigArgs.ResourcePolicy.Status.ClusterModules[i].GroupName =
            vm.Annotations.ClusterModuleName

\* The calls a step appends to the log.
NewCalls == IF Len(calls') > Len(calls) THEN (Len(calls) + 1)..Len(calls') ELSE {}

\* C23: affinity attachment is idempotent over passes.  AddMember is called
\* only right after IsMember answered, without error, that the VM is not a
\* member; a successful AddMember makes the VM a member and membership is
\* kept, so no later pass calls AddMember for that module again.  No affinity
\* call is made when either annotation is absent, and a module name the
\* policy does not know fails the pass before any affinity call.
C23_AffinityIdempotent ==
    /\ [][\A i \in NewCalls :
              calls'[i].op = "AddVmToClusterModule" =>
                  /\ i > 1
                  /\ calls'[i - 1].op = "IsVmMemberOfClusterModule"
                  /\ calls'[i - 1].ok
                  /\ calls'[i - 1].arg = calls'[i].arg
                  /\ calls'[i].arg \notin env.members
                  /\ calls'[i].ok => calls'[i].arg \in env'.members]_vars
    /\ [][env.members \subseteq env'.members]_vars
    /\ []((vm.Annotations.ClusterModuleName = "" \/ vm.Annotations.ProviderTags = "")
             => CallIdx(AffinityOps) = {})
    /\ []((vm.Annotations.ClusterModuleName # "" /\ vm.Annotations.ProviderTags # ""
              /\ ~ModuleKnown)
             => /\ CallIdx(AffinityOps) = {}
                /\ (PassDone /\ Projected /\ ~HostLookupFailed) =>
                       result = Err("ClusterModule not found"))

\* C23 witness: the first pass added the VM to the module and succeeded; the
\* second asked for membership and did not add again.
C23_Witness ==
    /\ pass >= 2 /\ PassDone /\ prev.result = "ok" /\ result.kind = "ok"
    /\ ModuleKnown /\ env.members # {}
    /\ CallIdx({"IsVmMemberOfClusterModule"}) # {}
    /\ CallIdx({"AddVmToClusterModule"}) = {}

---------------------------------------------------------------------------
(* SpecKeys: the device keys one pass gives to the devices it is about to   *)
(* create, over the number of desired interfaces and passthrough devices.   *)

MaxNetIfs == 101

InitKeys ==
    /\ IdlePass
    /\ matchOut = Nil
    /\ \E n \in 0..MaxNetIfs, nv \in 0..MaxDevs, nd \in 0..MaxDevs :
          matchIn = [kind |-> "keys",
                     networkInterfaces |->
                         [i \in 1..n |->
                             [AddressType |-> "generated", MacAddress |-> "",
                              ExternalId |-> "", Backing |-> NetworkBacking("net-a")]],
                     pciDevices |->
                         [VGPUDevices |-> [i \in 1..nv |-> [ProfileName |-> "profileA"]],
                          DynamicDirectPathIODevices |->
                              [i \in 1..nd |->
                                  [VendorID |-> 4318, DeviceID |-> 7864,
                                   CustomLabel |-> "label-1"]]]]

\* Lines 603-624 and 209-239, as prepareVMForPowerOn reaches them in one pass.
AssignKeys ==
    /\ matchOut = Nil
    /\ matchIn.kind = "keys"
    /\ LET netIfList == ensureNetworkInterfaces(matchIn.networkInterfaces)
           expectedPciDevices == createPCIDevices(matchIn.pciDevices)
       IN  matchOut' = Ptr([netIfKeys |-> [i \in 1..Len(netIfList) |->
                                              netIfList[i].Device.Key],
                            pciKeys |-> [i \in 1..Len(expectedPciDevices) |->
                                            expectedPciDevices[i].Key]])
    /\ UNCHANGED <<matchIn, passVars>>

NextKeys == AssignKeys

SpecKeys == InitKeys /\ [][NextKeys]_vars

---------------------------------------------------------------------------
(* Claims about the placeholder device keys (SpecKeys). *)

NetIfKeys == Deref(matchOut).netIfKeys

PciKeys == Deref(matchOut).pciKeys

\* Negative and strictly decreasing, hence pairwise distinct.
NegativeDecreasing(keys) ==
    /\ \A i \in 1..Len(keys) : keys[i] < 0
    /\ \A i, j \in 1..Len(keys) : i < j => keys[j] < keys[i]

\* C24 as stated: placeholder device keys never collide.  For every number of
\* desired interfaces and of passthrough devices the keys are negative,
\* strictly decreasing within each class, and no interface key is a
\* passthrough key.
C24_KeysNeverCollide ==
    MatchDone =>
        /\ NegativeDecreasing(NetIfKeys)
        /\ NegativeDecreasing(PciKeys)
        /\ Range(NetIfKeys) \cap Range(PciKeys) = {}

\* C24 amended: the keys are negative and strictly decreasing within each
\* class for every number of devices; the interface keys run down from -100
\* and the passthrough keys from -200, so the two sets are disjoint for up to
\* 100 desired interfaces, and with more than 100 interfaces and at least one
\* passthrough device the key -200 is in both.
C24_KeysDisjointUpTo100 ==
    MatchDone =>
        /\ NegativeDecreasing(NetIfKeys)
        /\ NegativeDecreasing(PciKeys)
        /\ \A i \in 1..Len(NetIfKeys) : NetIfKeys[i] = NetIfFirstKey - (i - 1)
        /\ \A i \in 1..Len(PciKeys) : PciKeys[i] = PciFirstKey - (i - 1)
        /\ Len(NetIfKeys) <= NetIfFirstKey - PciFirstKey =>
               Range(NetIfKeys) \cap Range(PciKeys) = {}
        /\ (Len(NetIfKeys) > NetIfFirstKey - PciFirstKey /\ Len(PciKeys) >= 1) =>
               PciFirstKey \in Range(NetIfKeys) \cap Range(PciKeys)

\* C24 witness: a hundred interfaces and a vGPU and a direct-path device; the
\* last interface key is one above the first passthrough key.
C24_Witness ==
    /\ MatchDone
    /\ Len(NetIfKeys) = 100 /\ Len(PciKeys) = 2
    /\ NetIfKeys[100] = -199 /\ PciKeys[1] = -200
    /\ Range(NetIfKeys) \cap Range(PciKeys) = {}

\* The resolved interface list was empty: the expected cards are the current
\* cards themselves, as fakeUpClonedNetIfList hands them on.
FakedUpList == matchIn.kind = "eth" /\ matchIn.expected = matchIn.current

\* C25: empty-interface-list guard.  When the resolved interface list is
\* empty, the network adapter matcher returns no device change: no current
\* adapter is removed and none is added, whatever its backing.
C25_EmptyInterfaceListGuard ==
    (MatchDone /\ FakedUpList) => Changes = <<>>

\* The pass before this one applied its delta and then returned an error; the
\* VM is still powered off and this pass has built its delta.
RerunAfterPartialFailure ==
    /\ pass >= 2 /\ prev.reconfigured /\ prev.result = "error"
    /\ PrePowerOnPass /\ DeltaBuilt

\* C26: re-run after partial failure reaches a fixed point.  When a
\* pre-power-on pass applied its delta and failed at a later step, the next
\* pass on the still powered-off VM builds the zero-value delta and issues no
\* Reconfigure call.
C26_RerunFixedPoint ==
    RerunAfterPartialFailure =>
        /\ Deref(local.configSpec) = ZeroConfigSpec
        /\ CallIdx({"Reconfigure"}) = {}

\* C27: checkpoint-restore is retried after partial failure.  When the
\* tracking Reconfigure of a powered-on VM succeeded and the checkpoint-restore
\* that follows it failed, the next pass with the same desired spec does not
\* finish without error unless it invoked checkpoint-restore again.
C27_CheckpointRestoreRetried ==
    (pass >= 2 /\ prev.fsrFailed /\ PassDone /\ result.kind = "ok") =>
        CallIdx({"InvokeFsr"}) # {}

\* C28: power-state convergence from every runtime state.  A pass that
\* returns success leaves the VM in the desired power state, whatever runtime
\* state the snapshot reported, and a desired=On pass that returns success on
\* a VM that was not powered on has issued SetPowerState(On).
C28_PowerStateConvergence ==
    (PassDone /\ Fetched /\ result.kind = "ok") =>
        /\ hv.Runtime.PowerState = Desired
        /\ (Desired = PoweredOn /\ StartPower # PoweredOn) => PowerIdx(PoweredOn) # {}

===========================================================================
